---- MODULE Spec2Model ----
(***************************************************************************)
(* A model of the daily IoT reporting pipeline: the source connectors     *)
(* (Redshift Data API submit/poll/fetch counters, CloudWatch metric       *)
(* counters, CloudWatch Contributor Insights reports), the aggregators    *)
(* that fan out to them with Promise.all, and the S3 snapshot store.       *)
(*                                                                         *)
(* Every awaited backend request is one step: the request is in flight     *)
(* (cpc[c] names which one) and its response, drawn from the answers the   *)
(* backend can give, is handled by one action that runs the code up to the *)
(* next await.                                                             *)
(***************************************************************************)
EXTENDS Integers, Sequences, FiniteSets, TLC

(***************************************************************************)
(* Bounds of the model.                                                    *)
(***************************************************************************)
\* Largest count a backend reports (row counts, metric sums, event counts).
MaxCount == 2
\* Longest list a backend returns (data points, contributors).
MaxLen == 2
MaxBusy == 1
MaxFailures == 1

(***************************************************************************)
(* Program constants.                                                      *)
(***************************************************************************)
\* const maxAttempts = 60 in waitForQueryCompletion.
maxAttempts == 60

(***************************************************************************)
(* Connectors.                                                             *)
(***************************************************************************)
\* getAccountCountFromRedshift, getDeviceCountFromRedshift,
\* getGatewayDeviceCountFromRedshift.
Redshift == {"account", "device", "gateway"}

\* The metrics list of getDailyMessageStatistics, each one a call of
\* getMessagesFromCloudWatch.
MsgMetrics ==
    {"PublishIn.Success", "PublishIn.ClientError", "PublishIn.ServerError",
     "PublishOut.Success", "PublishOut.ClientError", "PublishOut.ServerError",
     "Connect.Success", "Connect.ClientError", "Connect.ServerError",
     "Disconnect.Success", "Subscribe.Success", "Unsubscribe.Success"}

\* getTop10DuplicateAppClients, getTop10DuplicateDeviceClients,
\* getTop10AuthFailureAPPClients.
Contributor == {"duplicateApp", "duplicateDevice", "authFailureApp"}

\* The source connectors.
Conn == Redshift \cup MsgMetrics \cup Contributor

\* The load of the previous day's snapshot, awaited beside the connectors:
\* getYesterdayStatisticsFromS3, getErrorStatisticsFromS3.
Loads == {"previous"}

\* The error metrics of the earlier getDailyIoTErrorStatistics, each one a call
\* of getErrorMetricFromCloudWatch, all awaited by one inner Promise.all (the
\* call "errorMetrics").
ErrMetrics ==
    {"Connect.AuthError", "Connect.ClientError", "Connect.ServerError", "Connect.Throttle",
     "PublishIn.AuthError", "PublishIn.ClientError", "PublishIn.ServerError",
     "PublishOut.AuthError", "PublishOut.ClientError", "PublishOut.ServerError",
     "Subscribe.AuthError", "Subscribe.ClientError", "Subscribe.ServerError",
     "Subscribe.Throttle"}
Inner == {"errorMetrics"}

\* Everything a run awaits in a Promise.all.
Calls == Conn \cup Loads \cup Inner

(***************************************************************************)
(* What the backends can answer.                                           *)
(***************************************************************************)
\* Status values of the Redshift Data API (DescribeStatement).
InProgress == {"SUBMITTED", "PICKED", "STARTED"}
BackendStatus == InProgress \cup {"FINISHED", "FAILED", "ABORTED"}

\* statusResponse.Error of a FAILED statement.
Reasons == {"syntax error", "permission denied"}

Counts == 0..MaxCount

(***************************************************************************)
(* Report types and the calls each one awaits in its Promise.all, in the   *)
(* order of the array literal.                                             *)
(***************************************************************************)
\* getAWSIotCoreStatistic, getAWSIotMsgStatistic, getAWSIoTErrorStatistic, and
\* the earlier getAWSIoTErrorStatistic (with the metric totals).
ReportTypes == {"core", "message", "error", "errorV1"}

MsgMetricSeq ==
    <<"PublishIn.Success", "PublishIn.ClientError", "PublishIn.ServerError",
      "PublishOut.Success", "PublishOut.ClientError", "PublishOut.ServerError",
      "Connect.Success", "Connect.ClientError", "Connect.ServerError",
      "Disconnect.Success", "Subscribe.Success", "Unsubscribe.Success">>

FanOut(t) ==
    IF t = "core" THEN <<"account", "device", "gateway", "previous">>
    ELSE IF t = "message" THEN MsgMetricSeq
    ELSE IF t = "error" THEN <<"duplicateApp", "duplicateDevice", "authFailureApp">>
    ELSE IF t = "errorV1" THEN <<"errorMetrics", "duplicateApp", "duplicateDevice">>
    ELSE <<>>

\* The index of call c in the Promise.all of report type t (0: not awaited).
IndexOf(t, c) ==
    IF \E i \in 1..Len(FanOut(t)) : FanOut(t)[i] = c
    THEN CHOOSE i \in 1..Len(FanOut(t)) : FanOut(t)[i] = c
    ELSE 0

\* Promise.all stores the value of the call at index i in slot i, whatever
\* the number k of calls settled before it.
PromiseAllSlotByArrival(i, k) == k + 1
PromiseAllSlot(i, k) == i

\* A slot of the array no value was stored in yet (undefined): a number slot
\* reads as 0 and an object slot as the object without fields.
Pending(t, i) ==
    [settled |-> FALSE, value |-> IF FanOut(t)[i] \in Loads THEN <<>> ELSE 0]

\* The value the awaited promise of call c resolves with when the call
\* returns v: the metrics.map callback wraps it with the metric's name.
Settled(t, c, v) ==
    IF t = "message" THEN [settled |-> TRUE, value |-> [metric |-> c, value |-> v]]
    ELSE [settled |-> TRUE, value |-> v]

VARIABLES
    cpc,          \* per connector: which awaited request is in flight
    status,       \* waitForQueryCompletion: let status
    attempts,     \* waitForQueryCompletion: let attempts
    polls,        \* log: DescribeStatement requests issued by the connector
    fetches,      \* log: GetStatementResult requests issued by the connector
    response,     \* log: the data response the connector received, if any
    sawFinished,  \* log: some status poll of the connector returned FINISHED
    statusError,  \* log: statusResponse.Error of the last status response
    caught,       \* log: the error the connector's catch block received
    ret,          \* the value the connector call resolved with
    report,       \* the report type of the run ("none": no run)
    rpc,          \* the run: which await it is at
    results,      \* the array Promise.all builds, one slot per awaited call
    snapshot,     \* todayStats / statisticMessage, once assembled
    store,        \* the S3 bucket: key -> object
    cw,           \* the CloudWatch metric data of the day: metric -> data points
    putLog,       \* log: the PutObject requests issued, with the calls then in flight
    outcome,      \* what the run resolved with
    queries,      \* log: how many times each call was made
    reordered,    \* log: a call settled while a call before it in the array had not
    hpc,          \* the handler: which await it is at
    statusCode,   \* the statusCode the handler returned (0: not returned)
    sent,         \* the message last handed to sendToDingTalk
    input,        \* the arguments of a function applied on its own
    output,       \* the value that function returned
    inv           \* two invocations of an entry point for the same date

connVars == <<cpc, status, attempts, polls, fetches, response, sawFinished, statusError, caught, ret>>
runVars == <<report, rpc, results, reordered, snapshot, store, cw, putLog, outcome>>
\* The variables that no response to a connector's request writes.
handlerVars == <<hpc, statusCode, sent>>
pureVars == <<input, output, inv>>
otherRunVars ==
    <<report, rpc, snapshot, store, cw, putLog, outcome, queries, handlerVars, pureVars>>
vars == <<connVars, runVars, queries, handlerVars, pureVars>>

(***************************************************************************)
(* Errors a connector can raise or receive.                                *)
(***************************************************************************)
NoError == [kind |-> "none", reason |-> "none"]
\* A backend request rejected (network, throttling, access denied, ...).
RequestError(at) == [kind |-> "RequestError", reason |-> at]
\* A response without the field the code dereferences (a TypeError).
TypeError(at) == [kind |-> "TypeError", reason |-> at]
\* throw new Error(`Redshift查询失败: ${statusResponse.Error}`)
QueryFailedMute(reason) == [kind |-> "QueryFailed", reason |-> "none"]
QueryFailed(reason) == [kind |-> "QueryFailed", reason |-> reason]
\* throw new Error('Redshift查询超时')
QueryTimeout == [kind |-> "QueryTimeout", reason |-> "none"]

(***************************************************************************)
(* waitForQueryCompletion: the loop condition and the check after the loop.*)
(***************************************************************************)
LoopConditionUnbounded(st, att) == st \in InProgress
LoopCondition(st, att) == st \in InProgress /\ att < maxAttempts

TimedOutOffByOne(att) == att + 1 >= maxAttempts
TimedOut(att) == att >= maxAttempts

(***************************************************************************)
(* The catch blocks of the connectors: what the call resolves with.        *)
(***************************************************************************)
Returned(v) == [pc |-> "returned", value |-> v]
Rejected(e) == [pc |-> "rejected", value |-> 0]

\* catch (error) { console.error(...); return 0; } of the Redshift counters.
RedshiftCatchRethrow(e) == Rejected(e)
RedshiftCatch(e) == Returned(0)

\* results.Records[0][0]?.longValue || 0, or 0 without records.
FirstCellFirstRow(res) == IF res.kind = "long" THEN res.longValue + 1 ELSE 0
FirstCell(res) == IF res.kind = "long" THEN res.longValue ELSE 0

\* The answers of GetStatementResult: a rejected request, no Records, a first
\* cell holding longValue, a first cell of another type (no longValue).
FetchResponses(V) ==
    {[kind |-> "throw", longValue |-> 0], [kind |-> "norecords", longValue |-> 0],
     [kind |-> "string", longValue |-> 0]}
    \cup {[kind |-> "long", longValue |-> v] : v \in V}

(***************************************************************************)
(* The first request of a connector call: the code up to its first await.  *)
(***************************************************************************)
FirstRequest(c) ==
    IF c \in Redshift THEN "submit"
    ELSE IF c \in MsgMetrics THEN "metric"
    ELSE IF c \in Contributor THEN "insight"
    ELSE IF c \in Loads THEN "s3get"
    ELSE "metrics"

NotReturned(c) == 0
NoResponse == [kind |-> "none"]

\* Calls the connectors of S: each runs synchronously up to its first await.
Launch(S) ==
    /\ cpc' = [c \in Calls |-> IF c \in S THEN FirstRequest(c) ELSE cpc[c]]
    /\ status' = [c \in Calls |-> IF c \in S THEN "SUBMITTED" ELSE status[c]]
    /\ attempts' = [c \in Calls |-> IF c \in S THEN 0 ELSE attempts[c]]
    /\ polls' = [c \in Calls |-> IF c \in S THEN 0 ELSE polls[c]]
    /\ fetches' = [c \in Calls |-> IF c \in S THEN 0 ELSE fetches[c]]
    /\ response' = [c \in Calls |-> IF c \in S THEN NoResponse ELSE response[c]]
    /\ sawFinished' = [c \in Calls |-> IF c \in S THEN FALSE ELSE sawFinished[c]]
    /\ statusError' = [c \in Calls |-> IF c \in S THEN "none" ELSE statusError[c]]
    /\ caught' = [c \in Calls |-> IF c \in S THEN NoError ELSE caught[c]]
    /\ ret' = [c \in Calls |-> IF c \in S THEN NotReturned(c) ELSE ret[c]]
    /\ queries' = [c \in Calls |-> IF c \in S THEN queries[c] + 1 ELSE queries[c]]

\* The call of c ends: it resolves with out.value, or rejects. In a run,
\* Promise.all stores the value.
Finish(c, out, e) ==
    /\ cpc' = [cpc EXCEPT ![c] = out.pc]
    /\ ret' = [ret EXCEPT ![c] = out.value]
    /\ caught' = [caught EXCEPT ![c] = e]
    /\ results' =
          IF rpc \in {"fanout", "fallback"} /\ IndexOf(report, c) > 0 /\ out.pc = "returned"
          THEN [results EXCEPT
                  ![PromiseAllSlot(IndexOf(report, c),
                                   Cardinality({i \in 1..Len(results) : results[i].settled}))]
                     = Settled(report, c, out.value)]
          ELSE results
    /\ reordered' =
          IF rpc \in {"fanout", "fallback"} /\ IndexOf(report, c) > 0 /\ out.pc = "returned"
          THEN reordered \/ \E j \in 1..(IndexOf(report, c) - 1) : ~results[j].settled
          ELSE reordered

(***************************************************************************)
(* The Redshift counters (submit, poll, fetch).                            *)
(***************************************************************************)
\* After the loop of waitForQueryCompletion, with attempts = att: the timeout
\* check, then back in the connector the GetStatementResult request.
AfterLoop(c, att) ==
    IF TimedOut(att)
    THEN /\ Finish(c, RedshiftCatch(QueryTimeout), QueryTimeout)
         /\ UNCHANGED <<polls, fetches>>
    ELSE /\ cpc' = [cpc EXCEPT ![c] = "fetch"]
         /\ fetches' = [fetches EXCEPT ![c] = @ + 1]
         /\ UNCHANGED <<polls, ret, caught, results, reordered>>

\* The loop test of waitForQueryCompletion with status = st, attempts = att:
\* the next DescribeStatement request, or the code after the loop.
ContinueWait(c, st, att) ==
    IF LoopCondition(st, att)
    THEN /\ cpc' = [cpc EXCEPT ![c] = "poll"]
         /\ polls' = [polls EXCEPT ![c] = @ + 1]
         /\ UNCHANGED <<fetches, ret, caught, results, reordered>>
    ELSE AfterLoop(c, att)

\* await redshiftDataClient.send(executeCommand) answers.
SubmitResponse(c) ==
    /\ c \in Redshift
    /\ cpc[c] = "submit"
    /\ \/ \* the request is rejected: the catch block
          /\ Finish(c, RedshiftCatch(RequestError("submit")), RequestError("submit"))
          /\ UNCHANGED <<status, attempts, polls, fetches>>
       \/ \* waitForQueryCompletion starts: status = 'SUBMITTED', attempts = 0
          /\ status' = [status EXCEPT ![c] = "SUBMITTED"]
          /\ attempts' = [attempts EXCEPT ![c] = 0]
          /\ ContinueWait(c, "SUBMITTED", 0)
    /\ UNCHANGED <<response, sawFinished, statusError>>
    /\ UNCHANGED otherRunVars

\* The answers of DescribeStatement with a status of S: a FAILED statement
\* carries one of the failure reasons R in Error.
StatusResponses(S, R) ==
    {[Status |-> s, Error |-> "none"] : s \in S \ {"FAILED"}}
    \cup {[Status |-> "FAILED", Error |-> r] : r \in {x \in R : "FAILED" \in S}}

\* attempts++ : attempts is a local variable of the call of
\* waitForQueryCompletion.
NextAttemptsShared(c) == [d \in Calls |-> attempts[d] + 1]
NextAttempts(c) == [attempts EXCEPT ![c] = @ + 1]

\* await redshiftDataClient.send(statusCommand) answers, with one of
\* Answers; the backend leaves a statement in progress for at most busy polls.
\* The one-second wait that follows an in-progress status is part of the step.
PollResponse(c, Answers, busy) ==
    /\ c \in Redshift
    /\ cpc[c] = "poll"
    /\ UNCHANGED <<response, otherRunVars>>
    /\ \/ \* the request is rejected: the catch block
          /\ Finish(c, RedshiftCatch(RequestError("poll")), RequestError("poll"))
          /\ UNCHANGED <<status, attempts, polls, fetches, sawFinished, statusError>>
       \/ \E a \in Answers :
             LET s == a.Status
                 r == a.Error
             IN
             /\ s \in InProgress => attempts[c] < busy
             /\ status' = [status EXCEPT ![c] = s]
             /\ statusError' = [statusError EXCEPT ![c] = r]
             /\ sawFinished' = [sawFinished EXCEPT ![c] = @ \/ s = "FINISHED"]
             /\ IF s = "FAILED"
                THEN \* throw new Error(... statusResponse.Error)
                     /\ Finish(c, RedshiftCatch(QueryFailed(r)), QueryFailed(r))
                     /\ UNCHANGED <<attempts, polls, fetches>>
                ELSE IF s = "FINISHED"
                THEN \* break
                     /\ UNCHANGED attempts
                     /\ AfterLoop(c, attempts[c])
                ELSE \* the wait, attempts++, and the loop test
                     /\ attempts' = NextAttempts(c)
                     /\ ContinueWait(c, s, attempts[c] + 1)

\* await redshiftDataClient.send(resultsCommand) answers.
FetchResponse(c, Responses) ==
    /\ c \in Redshift
    /\ cpc[c] = "fetch"
    /\ \E res \in Responses :
          /\ response' = [response EXCEPT ![c] = res]
          /\ IF res.kind = "throw"
             THEN Finish(c, RedshiftCatch(RequestError("fetch")), RequestError("fetch"))
             ELSE Finish(c, Returned(FirstCell(res)), NoError)
    /\ UNCHANGED <<status, attempts, polls, fetches, sawFinished, statusError>>
    /\ UNCHANGED otherRunVars

(***************************************************************************)
(* The CloudWatch metric counters (getMessagesFromCloudWatch).             *)
(***************************************************************************)
\* All sequences over S of length at most n.
RECURSIVE SeqsUpTo(_, _)
SeqsUpTo(S, n) ==
    IF n = 0 THEN {<<>>}
    ELSE LET shorter == SeqsUpTo(S, n - 1)
         IN  shorter \cup {Append(q, x) : q \in {t \in shorter : Len(t) = n - 1}, x \in S}

\* The answers of GetMetricStatistics with sums of V and at most n data
\* points: a rejected request, a response without Datapoints, data points.
MetricResponses(V, n) ==
    {[kind |-> "throw", Datapoints |-> <<>>], [kind |-> "undefined", Datapoints |-> <<>>]}
    \cup {[kind |-> "datapoints", Datapoints |-> d] : d \in SeqsUpTo(V, n)}

\* response.Datapoints.length > 0 ? response.Datapoints[0].Sum : 0
FirstDatapointOrOne(Datapoints) == IF Len(Datapoints) > 0 THEN Datapoints[1] ELSE 1
FirstDatapoint(Datapoints) == IF Len(Datapoints) > 0 THEN Datapoints[1] ELSE 0

\* catch (error) { console.error(...); return 0; } of the metric counters.
MetricCatch(e) == Returned(0)

\* await cloudwatchClient.send(new GetMetricStatisticsCommand(params)) answers.
MetricResponse(c, Responses) ==
    /\ c \in MsgMetrics
    /\ cpc[c] = "metric"
    /\ \E r \in Responses :
          /\ response' = [response EXCEPT ![c] = r]
          /\ IF r.kind = "throw"
             THEN Finish(c, MetricCatch(RequestError("metric")), RequestError("metric"))
             ELSE IF r.kind = "undefined"
             THEN Finish(c, MetricCatch(TypeError("Datapoints")), TypeError("Datapoints"))
             ELSE Finish(c, Returned(FirstDatapoint(r.Datapoints)), NoError)
    /\ UNCHANGED <<status, attempts, polls, fetches, sawFinished, statusError>>
    /\ UNCHANGED otherRunVars

(***************************************************************************)
(* The Contributor Insights reports (getTop10...Clients).                  *)
(***************************************************************************)
\* One contributor of a rule report. hasKeys = FALSE is a contributor without
\* Keys, on which contributor.Keys[0] raises a TypeError.
Contribution(keys, v) == [hasKeys |-> TRUE, Keys |-> keys, ApproximateAggregateValue |-> v]
NoKeys == [hasKeys |-> FALSE, Keys |-> <<>>, ApproximateAggregateValue |-> 1]

\* The answers of GetInsightRuleReport over the contributors E, with counts
\* of V and at most n contributors: a rejected request, or a report, with or
\* without a Contributors list.
InsightResponses(E, V, n) ==
    {[kind |-> "throw", AggregateValue |-> 0, ApproximateUniqueCount |-> 0,
      hasContributors |-> FALSE, Contributors |-> <<>>]}
    \cup {[kind |-> "report", AggregateValue |-> a, ApproximateUniqueCount |-> u,
           hasContributors |-> FALSE, Contributors |-> <<>>] : a \in V, u \in V}
    \cup {[kind |-> "report", AggregateValue |-> a, ApproximateUniqueCount |-> u,
           hasContributors |-> TRUE, Contributors |-> l] :
             a \in V, u \in V, l \in SeqsUpTo(E, n)}

\* ((value / AggregateValue) * 100).toFixed(2): the text "NaN" for 0 / 0,
\* "Infinity" for a division of a positive value by 0, else the quotient in
\* hundredths of a percent, rounded to the nearest.
Percentage(value, total) ==
    IF total = 0
    THEN IF value = 0 THEN [text |-> "NaN", hundredths |-> 0]
         ELSE [text |-> "Infinity", hundredths |-> 0]
    ELSE [text |-> "fixed", hundredths |-> (2 * 10000 * value + total) \div (2 * total)]

\* The callback of response.Contributors.map, at index + 1 = rank.
ContributorRecord(contributor, rank, total) ==
    [rank |-> rank,
     clientId |-> IF Len(contributor.Keys) >= 1 THEN contributor.Keys[1] ELSE "undefined",
     sourceIp |-> IF Len(contributor.Keys) >= 2 THEN contributor.Keys[2] ELSE "Unknown",
     duplicateCount |-> contributor.ApproximateAggregateValue,
     percentage |-> Percentage(contributor.ApproximateAggregateValue, total)]

\* response.Contributors?.map(...) || []
ContributorRecords(r) ==
    IF r.hasContributors
    THEN [i \in 1..Len(r.Contributors) |->
            ContributorRecord(r.Contributors[i], i, r.AggregateValue)]
    ELSE <<>>

\* The type field of the report of connector c.
ReportType(c) == IF c = "duplicateDevice" THEN "device" ELSE "application"

\* The object a contributor connector returns; the record list is named
\* duplicateClients by the duplicate-client connectors and authFailureClients
\* by the authorization-failure connector. error = "none" stands for a report
\* without the error field.
Report(c, total, unique, records, error) ==
    IF c = "authFailureApp"
    THEN [totalEvents |-> total, uniqueClients |-> unique,
          authFailureClients |-> records, type |-> ReportType(c), error |-> error]
    ELSE [totalEvents |-> total, uniqueClients |-> unique,
          duplicateClients |-> records, type |-> ReportType(c), error |-> error]

\* The record list of a report of connector c.
RecordsOf(c, rep) ==
    IF c = "authFailureApp" THEN rep.authFailureClients ELSE rep.duplicateClients

\* catch (error) { ...; return {totalEvents: 0, uniqueClients: 0, <records>: [],
\* type, error: error.message}; } of the contributor connectors.
ContributorCatchNoMarker(c, e) == Returned(Report(c, 0, 0, <<>>, "none"))
ContributorCatch(c, e) == Returned(Report(c, 0, 0, <<>>, e.kind))

\* The return statement of a contributor connector.
ContributorReturnPartial(c, r) ==
    Returned(Report(c, r.AggregateValue, r.ApproximateUniqueCount,
                    IF r.hasContributors
                    THEN SelectSeq(ContributorRecords([r EXCEPT !.Contributors =
                                       SelectSeq(r.Contributors, LAMBDA x : x.hasKeys)]),
                                   LAMBDA x : TRUE)
                    ELSE <<>>,
                    "none"))
ContributorReturn(c, r) ==
    Returned(Report(c, r.AggregateValue, r.ApproximateUniqueCount, ContributorRecords(r), "none"))

\* await cloudwatchClient.send(new GetInsightRuleReportCommand(params)) answers.
InsightResponse(c, Responses) ==
    /\ c \in Contributor
    /\ cpc[c] = "insight"
    /\ \E r \in Responses :
          /\ response' = [response EXCEPT ![c] = r]
          /\ IF r.kind = "throw"
             THEN Finish(c, ContributorCatch(c, RequestError("insight")), RequestError("insight"))
             ELSE IF \E i \in 1..Len(r.Contributors) : ~r.Contributors[i].hasKeys
             THEN Finish(c, ContributorCatch(c, TypeError("Keys")), TypeError("Keys"))
             ELSE Finish(c, ContributorReturn(c, r), NoError)
    /\ UNCHANGED <<status, attempts, polls, fetches, sawFinished, statusError>>
    /\ UNCHANGED otherRunVars

(***************************************************************************)
(* The snapshot store (S3).                                                *)
(***************************************************************************)
\* The day of the run (new Date()), as a day number.
Today == 2
\* yesterday.setDate(yesterday.getDate() - 1)
Yesterday(date) == date - 1

Dates == {Yesterday(Today), Today}

\* `${year}/${month}/<prefix>-${date}.json`
KeyOf(prefix, date) == [prefix |-> prefix, date |-> date]

\* The file name prefix of the snapshots of report type t.
Prefix(t) ==
    IF t = "core" THEN "daily-statistic"
    ELSE IF t = "message" THEN "message-statistic"
    ELSE "error-statistic"

Keys == {KeyOf(Prefix(t), d) : t \in ReportTypes, d \in Dates}

\* An object of the bucket: none, a body that is not JSON, or the JSON text of
\* obj (JSON.stringify / JSON.parse of finite numbers, strings, arrays and
\* objects give obj back).
Absent == [kind |-> "absent", body |-> <<>>]
Malformed == [kind |-> "malformed", body |-> <<>>]
Json(obj) == [kind |-> "json", body |-> obj]

\* obj.f || 0
FieldMissingAsOne(obj, f) == IF f \in DOMAIN obj THEN obj[f] ELSE 1
Field(obj, f) == IF f \in DOMAIN obj THEN obj[f] ELSE 0

\* The catch blocks of getYesterdayStatisticsFromS3,
\* getMessageStatisticsFromS3 and getErrorStatisticsFromS3: the default
\* they return.
LoadDefault(t) ==
    IF t = "core"
    THEN [accountThingCount |-> 0, deviceThingCount |-> 0, totalThingCount |-> 0]
    ELSE IF t = "message"
    THEN [totalMessages |-> 0,
          inbound |-> [total |-> 0, success |-> 0],
          outbound |-> [total |-> 0, success |-> 0],
          connections |-> [total |-> 0, success |-> 0]]
    ELSE [totalErrors |-> 0,
          connectionErrors |-> [total |-> 0],
          publishInErrors |-> [total |-> 0],
          publishOutErrors |-> [total |-> 0],
          subscribeErrors |-> [total |-> 0],
          duplicateClients |->
              [applications |-> [totalEvents |-> 0, duplicateClients |-> <<>>],
               devices |-> [totalEvents |-> 0, duplicateClients |-> <<>>]]]

\* await s3Client.send(GetObjectCommand) and the read of the body answer.
GetResponse(c) ==
    /\ c \in Loads
    /\ cpc[c] = "s3get"
    /\ LET obj == store[KeyOf(Prefix(report), Yesterday(Today))]
       IN  \/ Finish(c, Returned(LoadDefault(report)), RequestError("s3get"))
           \/ /\ obj.kind = "absent"
              /\ Finish(c, Returned(LoadDefault(report)), RequestError("NoSuchKey"))
           \/ /\ obj.kind = "malformed"
              /\ Finish(c, Returned(LoadDefault(report)), [kind |-> "SyntaxError", reason |-> "JSON.parse"])
           \/ /\ obj.kind = "json"
              /\ Finish(c, Returned(obj.body), NoError)
    /\ UNCHANGED <<status, attempts, polls, fetches, response, sawFinished, statusError>>
    /\ UNCHANGED otherRunVars

(***************************************************************************)
(* The aggregators: what they build from the array of Promise.all.         *)
(***************************************************************************)
\* const totalThingCount = accountThingCount + deviceThingCount
TotalThingCountAccountOnly(accountThingCount, deviceThingCount) == accountThingCount
TotalThingCount(accountThingCount, deviceThingCount) == accountThingCount + deviceThingCount

\* getAWSIotCoreStatistic: the statisticMessage.
CoreStatistics(res) ==
    LET accountThingCount == res[1].value
        sdeviceThingCount == res[2].value
        gatewayThingCount == res[3].value
        yesterday == res[4].value
        deviceThingCount == sdeviceThingCount + gatewayThingCount
        totalThingCount == TotalThingCount(accountThingCount, deviceThingCount)
        yesterdayAccountThingCount == Field(yesterday, "accountThingCount")
        yesterdayDeviceThingCount == Field(yesterday, "deviceThingCount")
        yesterdayTotalThingCount == Field(yesterday, "totalThingCount")
    IN  [date |-> Today,
         accountThingCount |-> accountThingCount,
         deviceThingCount |-> deviceThingCount,
         totalThingCount |-> totalThingCount,
         accountThingIncrement |-> accountThingCount - yesterdayAccountThingCount,
         deviceThingIncrement |-> deviceThingCount - yesterdayDeviceThingCount,
         totalThingIncrement |-> totalThingCount - yesterdayTotalThingCount,
         yesterdayData |->
             [accountThingCount |-> yesterdayAccountThingCount,
              deviceThingCount |-> yesterdayDeviceThingCount,
              totalThingCount |-> yesterdayTotalThingCount]]

\* results.find(r => r.metric === name)?.value || 0
Find(res, name) ==
    LET hits == {i \in 1..Len(res) : res[i].settled /\ res[i].value.metric = name}
    IN  IF hits = {} THEN 0
        ELSE res[CHOOSE i \in hits : \A j \in hits : i <= j].value.value

\* total > 0 ? ((success / total) * 100).toFixed(2) : 0
SuccessRate(success, total) ==
    IF total > 0 THEN Percentage(success, total) ELSE [text |-> "0", hundredths |-> 0]

\* getDailyMessageStatistics: the three totals of a direction.
DirectionTotalNoServerError(success, clientError, serverError) == success + clientError
DirectionTotal(success, clientError, serverError) == success + clientError + serverError

\* getDailyMessageStatistics: the statistics object.
MessageStatistics(res) ==
    LET inS == Find(res, "PublishIn.Success")
        inC == Find(res, "PublishIn.ClientError")
        inE == Find(res, "PublishIn.ServerError")
        outS == Find(res, "PublishOut.Success")
        outC == Find(res, "PublishOut.ClientError")
        outE == Find(res, "PublishOut.ServerError")
        conS == Find(res, "Connect.Success")
        conC == Find(res, "Connect.ClientError")
        conE == Find(res, "Connect.ServerError")
        inT == DirectionTotal(inS, inC, inE)
        outT == DirectionTotal(outS, outC, outE)
        conT == DirectionTotal(conS, conC, conE)
    IN  [date |-> Today,
         inbound |-> [success |-> inS, clientError |-> inC, serverError |-> inE,
                      total |-> inT, successRate |-> SuccessRate(inS, inT)],
         outbound |-> [success |-> outS, clientError |-> outC, serverError |-> outE,
                       total |-> outT, successRate |-> SuccessRate(outS, outT)],
         connections |-> [success |-> conS, clientError |-> conC, serverError |-> conE,
                          disconnects |-> Find(res, "Disconnect.Success"),
                          total |-> conT, successRate |-> SuccessRate(conS, conT)],
         subscriptions |-> [subscribe |-> Find(res, "Subscribe.Success"),
                            unsubscribe |-> Find(res, "Unsubscribe.Success")],
         totalMessages |-> inT + outT]

\* getDailyIoTErrorStatistics: the statistics object of date.
ErrorStatistics(date, res) ==
    [date |-> date,
     duplicateAppClients |-> res[1].value,
     duplicateDeviceClients |-> res[2].value,
     authFailureAppClients |-> res[3].value]

\* errorResults.find(r => r.metric === name)?.value || 0 of the earlier
\* getDailyIoTErrorStatistics; errorResults is here the function metric -> value.
FindError(errorResults, name) == errorResults[name]

\* Object.values(category).reduce((sum, val) =>
\*     typeof val === 'number' ? sum + val : sum, 0)
RECURSIVE SumValues(_)
SumValues(leaves) ==
    IF leaves = <<>> THEN 0 ELSE Head(leaves) + SumValues(Tail(leaves))

\* The earlier getDailyIoTErrorStatistics: the statistics object.
ErrorStatisticsV1(res) ==
    LET e == res[1].value
        conn == <<FindError(e, "Connect.AuthError"), FindError(e, "Connect.ClientError"),
                  FindError(e, "Connect.ServerError"), FindError(e, "Connect.Throttle")>>
        pin == <<FindError(e, "PublishIn.AuthError"), FindError(e, "PublishIn.ClientError"),
                 FindError(e, "PublishIn.ServerError")>>
        pout == <<FindError(e, "PublishOut.AuthError"), FindError(e, "PublishOut.ClientError"),
                  FindError(e, "PublishOut.ServerError")>>
        sub == <<FindError(e, "Subscribe.AuthError"), FindError(e, "Subscribe.ClientError"),
                 FindError(e, "Subscribe.ServerError"), FindError(e, "Subscribe.Throttle")>>
    IN  [date |-> Today,
         connectionErrors |-> [authError |-> conn[1], clientError |-> conn[2],
                               serverError |-> conn[3], throttle |-> conn[4],
                               total |-> SumValues(conn)],
         publishInErrors |-> [authError |-> pin[1], clientError |-> pin[2],
                              serverError |-> pin[3], total |-> SumValues(pin)],
         publishOutErrors |-> [authError |-> pout[1], clientError |-> pout[2],
                               serverError |-> pout[3], total |-> SumValues(pout)],
         subscribeErrors |-> [authError |-> sub[1], clientError |-> sub[2],
                              serverError |-> sub[3], throttle |-> sub[4],
                              total |-> SumValues(sub)],
         duplicateClients |-> [applications |-> res[2].value, devices |-> res[3].value],
         totalErrors |-> SumValues(conn) + SumValues(pin) + SumValues(pout) + SumValues(sub)]

\* The statistics object of a run of report type t.
Statistics(t, res) ==
    IF t = "core" THEN CoreStatistics(res)
    ELSE IF t = "message" THEN MessageStatistics(res)
    ELSE IF t = "error" THEN ErrorStatistics(Today, res)
    ELSE ErrorStatisticsV1(res)

(***************************************************************************)
(* One connector call on its own.                                          *)
(***************************************************************************)
\* The contributors a rule report holds in the single-connector runs.
(***************************************************************************)
(* The world a run starts in, and the answers it gets.                     *)
(***************************************************************************)
\* JSON null.
Null == [isNull |-> TRUE]
IsNull(v) == "isNull" \in DOMAIN v

NoSnapshot == <<>>
NoMessage == [throws |-> FALSE, msgtype |-> "none"]
NoInput == [fn |-> "none"]
NoOutput == [fn |-> "none"]
NoOutcome == [kind |-> "none", statistics |-> <<>>, comparison |-> <<>>]
EmptyStore == [k \in Keys |-> Absent]

AllMetrics == MsgMetrics \cup ErrMetrics
NoData == [m \in AllMetrics |-> <<>>]

\* Two days of metric data: every metric with one data point; and a day on
\* which some metrics have none, some one and some several data points.
EvenDay == [m \in AllMetrics |-> <<MaxCount>>]
UnevenDay ==
    [m \in AllMetrics |->
        IF m \in {"PublishIn.Success", "Connect.Success", "Connect.AuthError"}
        THEN <<MaxCount, 1>>
        ELSE IF m \in {"PublishIn.ClientError", "PublishOut.Success", "PublishIn.AuthError",
                       "Subscribe.Throttle"}
        THEN <<1>>
        ELSE IF m \in {"PublishOut.ServerError", "Connect.ClientError", "Subscribe.AuthError"}
        THEN <<MaxCount>>
        ELSE <<>>]

CwInits(t) ==
    IF t = "message" THEN {UnevenDay}
    ELSE IF t = "errorV1" THEN {EvenDay, UnevenDay}
    ELSE {NoData}

\* Snapshots an earlier run left under yesterday's key.
PreviousCore ==
    [date |-> Yesterday(Today), accountThingCount |-> 1, deviceThingCount |-> MaxCount,
     totalThingCount |-> 1 + MaxCount]
\* A stored snapshot without the device and total leaves.
PartialCore == [date |-> Yesterday(Today), accountThingCount |-> 1]
PreviousError ==
    [date |-> Yesterday(Today),
     duplicateAppClients |-> Report("duplicateApp", 1, 1, <<>>, "none"),
     duplicateDeviceClients |-> Report("duplicateDevice", 0, 0, <<>>, "RequestError"),
     authFailureAppClients |-> Report("authFailureApp", MaxCount, 1, <<>>, "none")]

PreviousObjects(t) ==
    IF t = "core" THEN {Absent, Json(Null), Json(PreviousCore), Json(PartialCore)}
    ELSE IF t = "error" THEN {Absent, Malformed, Json(Null), Json(PreviousError)}
    ELSE {Absent}

StoreInits(t) ==
    {[EmptyStore EXCEPT ![KeyOf(Prefix(t), Yesterday(Today))] = obj] : obj \in PreviousObjects(t)}

\* The Redshift answers of a run: a statement is seen running on at most
\* MaxBusy polls.
RunStatus == {"STARTED", "FINISHED", "FAILED"}
RunReasons == {"syntax error"}
RunFetchResponses == {[kind |-> "long", longValue |-> v] : v \in {0, MaxCount}}

\* The CloudWatch answers of a run: the data of the day, or a rejected
\* request on at most MaxFailures metrics.
Failed(S) == {c \in S : caught[c] # NoError}
RunMetricResponses(c) ==
    {[kind |-> "datapoints", Datapoints |-> cw[c]]}
    \cup IF Cardinality(Failed(MsgMetrics)) < MaxFailures
         THEN {[kind |-> "throw", Datapoints |-> <<>>]}
         ELSE {}

\* The Contributor Insights answers of a run.
RunEntries == {Contribution(<<"AP/a", "10.0.0.1">>, 1), NoKeys}
RunContributorLists ==
    {<<Contribution(<<"AP/a", "10.0.0.1">>, 1)>>,
     <<Contribution(<<"AP/a", "10.0.0.1">>, 1), NoKeys>>}
RunInsightResponses ==
    {r \in InsightResponses(RunEntries, {MaxCount}, 2) :
        r.hasContributors => r.Contributors \in RunContributorLists}
\* The answers about the day before, which the comparison asks for.
YesterdayInsightResponses ==
    {r \in InsightResponses({}, {1}, 0) : ~r.hasContributors}

Entries ==
    {Contribution(<<"AP/a", "10.0.0.1">>, v) : v \in 1..MaxCount}
    \cup {Contribution(<<"GD/b">>, v) : v \in 1..MaxCount}
    \cup {NoKeys}

\* Nothing has been called.
Quiescent ==
    /\ cpc = [c \in Calls |-> "idle"]
    /\ status = [c \in Calls |-> "SUBMITTED"]
    /\ attempts = [c \in Calls |-> 0]
    /\ polls = [c \in Calls |-> 0]
    /\ fetches = [c \in Calls |-> 0]
    /\ response = [c \in Calls |-> NoResponse]
    /\ sawFinished = [c \in Calls |-> FALSE]
    /\ statusError = [c \in Calls |-> "none"]
    /\ caught = [c \in Calls |-> NoError]
    /\ ret = [c \in Calls |-> NotReturned(c)]
    /\ queries = [c \in Calls |-> 0]
    /\ rpc = "idle"
    /\ results = <<>>
    /\ reordered = FALSE
    /\ snapshot = NoSnapshot
    /\ cw = NoData
    /\ putLog = <<>>
    /\ outcome = NoOutcome
    /\ hpc = "none"
    /\ statusCode = 0
    /\ sent = NoMessage

InitConn ==
    /\ Quiescent
    /\ report = "none"
    /\ store = EmptyStore
    /\ input = NoInput
    /\ output = NoOutput
    /\ inv = <<>>

\* A caller invokes one connector.
Invoke(c) ==
    /\ \A d \in Calls : cpc[d] = "idle"
    /\ Launch({c})
    /\ UNCHANGED <<runVars, handlerVars, pureVars>>

NextConnector ==
    \/ \E c \in Conn : Invoke(c)
    \/ \E c \in Redshift : SubmitResponse(c)
    \/ \E c \in Redshift : PollResponse(c, StatusResponses(BackendStatus, Reasons), maxAttempts)
    \/ \E c \in Redshift : FetchResponse(c, FetchResponses(Counts))
    \/ \E c \in MsgMetrics : MetricResponse(c, MetricResponses(Counts, MaxLen))
    \/ \E c \in Contributor : InsightResponse(c, InsightResponses(Entries, Counts, MaxLen))

SpecConnector == InitConn /\ [][NextConnector]_vars

(***************************************************************************)
(* A run of one report type: fan out, join, put, and for the error report  *)
(* the comparison with the previous day.                                   *)
(***************************************************************************)
Range(q) == {q[i] : i \in 1..Len(q)}
\* The call of c has ended.
Ended(c) == cpc[c] \in {"returned", "rejected"}
InFlight == {c \in Calls : cpc[c] # "idle" /\ ~Ended(c)}

Init ==
    /\ cpc = [c \in Calls |-> "idle"]
    /\ status = [c \in Calls |-> "SUBMITTED"]
    /\ attempts = [c \in Calls |-> 0]
    /\ polls = [c \in Calls |-> 0]
    /\ fetches = [c \in Calls |-> 0]
    /\ response = [c \in Calls |-> NoResponse]
    /\ sawFinished = [c \in Calls |-> FALSE]
    /\ statusError = [c \in Calls |-> "none"]
    /\ caught = [c \in Calls |-> NoError]
    /\ ret = [c \in Calls |-> NotReturned(c)]
    /\ queries = [c \in Calls |-> 0]
    /\ report \in ReportTypes
    /\ rpc = "idle"
    /\ results = <<>>
    /\ reordered = FALSE
    /\ snapshot = NoSnapshot
    /\ store \in StoreInits(report)
    /\ cw \in CwInits(report)
    /\ putLog = <<>>
    /\ outcome = NoOutcome
    /\ hpc = "call"
    /\ statusCode = 0
    /\ sent = NoMessage
    /\ input = NoInput
    /\ output = NoOutput
    /\ inv = <<>>

\* The entry point is called: the array handed to Promise.all is built, each
\* call running up to its first await.
RunStart(t) ==
    /\ report = t
    /\ rpc = "idle"
    /\ Launch(Range(FanOut(t)))
    /\ results' = [i \in 1..Len(FanOut(t)) |-> Pending(t, i)]
    /\ reordered' = FALSE
    /\ rpc' = "fanout"
    /\ UNCHANGED <<report, snapshot, store, cw, putLog, outcome, handlerVars, pureVars>>

\* The 14 wrapped metric counters of the earlier getDailyIoTErrorStatistics,
\* as one call: each resolves with the first data point of its metric, or
\* with 0 when its request is rejected.
ErrorMetricsResponse(c) ==
    /\ c \in Inner
    /\ cpc[c] = "metrics"
    /\ \E F \in {G \in SUBSET ErrMetrics : Cardinality(G) <= MaxFailures} :
          Finish(c, Returned([m \in ErrMetrics |->
                                IF m \in F THEN MetricCatch(RequestError("metric")).value
                                ELSE FirstDatapoint(cw[m])]), NoError)
    /\ UNCHANGED <<status, attempts, polls, fetches, response, sawFinished, statusError>>
    /\ UNCHANGED otherRunVars

\* await Promise.all([...]) resumes.
JoinReadyFirst(res) == res[1].settled
JoinReady(res) == \A i \in 1..Len(res) : res[i].settled

\* The object the catch block of an entry point returns.
RunError == [kind |-> "error", statistics |-> Null, comparison |-> Null]

\* The value an entry point returns after the put (and, for the error
\* report, the comparison).
RunResult(t, stats, comparison) ==
    IF t = "errorV1" THEN [kind |-> "date", statistics |-> Today, comparison |-> Null]
    ELSE IF t = "error" THEN [kind |-> "report", statistics |-> stats, comparison |-> comparison]
    ELSE [kind |-> "statistics", statistics |-> stats, comparison |-> Null]

(***************************************************************************)
(* The renderers, and the handler that calls them.                         *)
(***************************************************************************)
\* A TypeError raised while the template is evaluated
\* (undefined.toLocaleString()).
FormatThrows == [throws |-> TRUE, msgtype |-> "none"]

\* statistics.totalThingCount > 0 ? ((count / total) * 100).toFixed(2) : 0
TypeShareUnguarded(count, total) == Percentage(count, total)
TypeShare(count, total) ==
    IF total > 0 THEN Percentage(count, total) ELSE [text |-> "0", hundredths |-> 0]

formatIoTStatisticsMessage(statistics) ==
    IF \E f \in {"totalThingCount", "totalThingIncrement", "accountThingCount",
                 "accountThingIncrement", "deviceThingCount", "deviceThingIncrement"} :
          f \notin DOMAIN statistics
    THEN FormatThrows
    ELSE [throws |-> FALSE, msgtype |-> "markdown", title |-> "core",
          totalThingCount |-> statistics.totalThingCount,
          totalThingIncrement |-> statistics.totalThingIncrement,
          accountThingCount |-> statistics.accountThingCount,
          accountThingIncrement |-> statistics.accountThingIncrement,
          deviceThingCount |-> statistics.deviceThingCount,
          deviceThingIncrement |-> statistics.deviceThingIncrement,
          accountShare |-> TypeShare(statistics.accountThingCount, statistics.totalThingCount),
          deviceShare |-> TypeShare(statistics.deviceThingCount, statistics.totalThingCount)]

formatIotMsgStatisticsMessage(statistics) ==
    IF \E f \in {"totalMessages", "inbound", "outbound", "connections", "subscriptions"} :
          f \notin DOMAIN statistics
    THEN FormatThrows
    ELSE [throws |-> FALSE, msgtype |-> "markdown", title |-> "message",
          date |-> statistics.date,
          totalMessages |-> statistics.totalMessages,
          inbound |-> [total |-> statistics.inbound.total,
                       successRate |-> statistics.inbound.successRate],
          outbound |-> [total |-> statistics.outbound.total,
                        successRate |-> statistics.outbound.successRate],
          connections |-> [total |-> statistics.connections.total,
                           successRate |-> statistics.connections.successRate,
                           success |-> statistics.connections.success,
                           disconnects |-> statistics.connections.disconnects],
          subscriptions |-> statistics.subscriptions]

\* statistics.<group>?.totalEvents || 0
GroupTotal(statistics, g) == IF g \in DOMAIN statistics THEN statistics[g].totalEvents ELSE 0

\* totalErrors > 0 ? ((count / totalErrors) * 100).toFixed(1) : '0'
OverviewShare(count, total) ==
    IF total > 0
    THEN [text |-> "fixed", tenths |-> (2 * 1000 * count + total) \div (2 * total)]
    ELSE [text |-> "0", tenths |-> 0]

\* stats.uniqueClients > 0 ? Math.round(stats.totalEvents / stats.uniqueClients) : 0
AveragePerClient(stats) ==
    IF stats.uniqueClients > 0
    THEN [text |-> "rounded",
          value |-> (2 * stats.totalEvents + stats.uniqueClients) \div (2 * stats.uniqueClients)]
    ELSE [text |-> "0", value |-> 0]

\* The list a section of the error report shows under its overview: the
\* duplicate-client sections read <stats>.duplicateClients, the
\* authorization-failure section reads authStats.authFailureAppClients.
\* Each entry is one record of the list's first five, with its clientId
\* shortened: client.clientId.length > 50 ?
\*     client.clientId.substring(0, 47) + '...' : client.clientId
ClientIdShort(clientId) ==
    IF Len(clientId) > 50 THEN SubSeq(clientId, 1, 47) \o "..." ELSE clientId

ListEntry(client, index) ==
    [index |-> index,
     clientIdShort |-> ClientIdShort(client.clientId),
     sourceIp |-> client.sourceIp,
     duplicateCount |-> client.duplicateCount,
     percentage |-> client.percentage]

ListedRecords(g, stats) ==
    LET f == IF g = "authFailureAppClients" THEN "authFailureAppClients" ELSE "duplicateClients"
    IN  IF f \in DOMAIN stats
        THEN [i \in 1..(IF Len(stats[f]) < 5 THEN Len(stats[f]) ELSE 5) |->
                ListEntry(stats[f][i], i)]
        ELSE <<>>

\* One section of the error report: omitted when the group is missing.
Section(statistics, g) ==
    IF g \in DOMAIN statistics
    THEN [shown |-> TRUE,
          totalEvents |-> statistics[g].totalEvents,
          uniqueClients |-> statistics[g].uniqueClients,
          average |-> AveragePerClient(statistics[g]),
          listed |-> ListedRecords(g, statistics[g]),
          error |-> statistics[g].error]
    ELSE [shown |-> FALSE]

\* The direction of a day-over-day change: change > 0, change < 0, else.
TrendOfToday(today, change) ==
    IF today > 0 THEN "up" ELSE IF change < 0 THEN "down" ELSE "unchanged"
Trend(today, change) ==
    IF change > 0 THEN "up" ELSE IF change < 0 THEN "down" ELSE "unchanged"

\* item.yesterday > 0 ? ((change / item.yesterday) * 100).toFixed(1) : 'N/A'
ChangePercent(change, yesterday) ==
    IF yesterday > 0
    THEN [text |-> "fixed", tenths |-> (2 * 1000 * change + yesterday) \div (2 * yesterday)]
    ELSE [text |-> "N/A", tenths |-> 0]

\* One line of the day-over-day section: comparisons.forEach(item => ...).
Comparison(today, yesterday) ==
    LET change == today - yesterday
    IN  [today |-> today, yesterday |-> yesterday, change |-> change,
         changePercent |-> ChangePercent(change, yesterday),
         trend |-> Trend(today, change)]

\* The severity line: none when totalErrors === 0, else the ladder
\* > 50000, > 10000, > 1000.
Severity(totalErrors) ==
    IF totalErrors = 0 THEN "healthy"
    ELSE IF totalErrors > 50000 THEN "critical"
    ELSE IF totalErrors > 10000 THEN "warning"
    ELSE IF totalErrors > 1000 THEN "attention"
    ELSE "normal"

formatIoTErrorStatisticsMessage(statistics, comparison) ==
    IF IsNull(statistics) \/ "date" \notin DOMAIN statistics
    THEN [throws |-> FALSE, msgtype |-> "text"]
    ELSE LET totalDuplicateApp == GroupTotal(statistics, "duplicateAppClients")
             totalDuplicateDevice == GroupTotal(statistics, "duplicateDeviceClients")
             totalAuthFailure == GroupTotal(statistics, "authFailureAppClients")
             totalErrors == totalDuplicateApp + totalDuplicateDevice + totalAuthFailure
         IN  [throws |-> FALSE, msgtype |-> "markdown", title |-> "error",
              date |-> statistics.date,
              totalErrors |-> totalErrors,
              shares |-> [g \in {"duplicateAppClients", "duplicateDeviceClients",
                                 "authFailureAppClients"} |->
                            OverviewShare(GroupTotal(statistics, g), totalErrors)],
              sections |-> [g \in {"duplicateAppClients", "duplicateDeviceClients",
                                   "authFailureAppClients"} |-> Section(statistics, g)],
              compared |-> ~IsNull(comparison),
              comparisons |->
                  IF IsNull(comparison) THEN <<>>
                  ELSE [g \in {"duplicateAppClients", "duplicateDeviceClients",
                               "authFailureAppClients"} |->
                          Comparison(GroupTotal(statistics, g), GroupTotal(comparison, g))],
              severity |-> Severity(totalErrors)]

\* The object an entry point hands to its caller: the statistics object, the
\* wrapper object of getAWSIoTErrorStatistic, or the object of a catch block.
ReturnedObject(t, o) ==
    IF t = "error"
    THEN IF o.kind = "error"
         THEN [date |-> Today, statistics |-> Null, comparison |-> Null,
               success |-> FALSE, error |-> "error.message"]
         ELSE [date |-> Today, statistics |-> o.statistics, comparison |-> o.comparison,
               dingTalkMessage |-> formatIoTErrorStatisticsMessage(o.statistics, o.comparison),
               success |-> TRUE]
    ELSE IF o.kind = "error"
         THEN [statistics |-> Null, error |-> "error.message"]
         ELSE o.statistics

\* The handler formats what the entry point of report type t returned.
HandlerFormat(t, obj) ==
    IF t = "core" THEN formatIoTStatisticsMessage(obj)
    ELSE IF t = "message" THEN formatIotMsgStatisticsMessage(obj)
    ELSE formatIoTErrorStatisticsMessage(obj, Null)

\* The entry point returns o and the handler resumes: it formats the object
\* and calls sendToDingTalk, or the formatter throws and the handler's catch
\* returns statusCode 500. The earlier error aggregator is followed up to its
\* return only.
Returns(o) ==
    /\ rpc' = "done"
    /\ outcome' = o
    /\ IF report = "errorV1"
       THEN UNCHANGED handlerVars
       ELSE LET m == HandlerFormat(report, ReturnedObject(report, o))
            IN  IF m.throws
                THEN /\ hpc' = "returned"
                     /\ statusCode' = 500
                     /\ UNCHANGED sent
                ELSE /\ hpc' = "send"
                     /\ sent' = m
                     /\ UNCHANGED statusCode

\* The code between the await of Promise.all and the await of the put: the
\* statistics object is built and PutObject is requested. A previous
\* snapshot that is JSON null raises a TypeError on its first field access.
Join ==
    /\ rpc = "fanout"
    /\ IF \E c \in Range(FanOut(report)) : cpc[c] = "rejected"
       THEN /\ Returns(RunError)
            /\ UNCHANGED <<snapshot, putLog>>
       ELSE /\ JoinReady(results)
            /\ IF report = "core" /\ IsNull(results[4].value)
               THEN /\ Returns(RunError)
                    /\ UNCHANGED <<snapshot, putLog>>
               ELSE /\ snapshot' = Statistics(report, results)
                    /\ putLog' = Append(putLog, [key |-> KeyOf(Prefix(report), Today),
                                                 inflight |-> InFlight])
                    /\ rpc' = "put"
                    /\ UNCHANGED <<outcome, handlerVars>>
    /\ UNCHANGED <<connVars, queries, report, results, reordered, store, cw, pureVars>>

\* The bucket after PutObjectCommand({Key: <prefix of t>-<data.date>.json,
\* Body: JSON.stringify(data)}) has been carried out.
StoredAlsoYesterday(t, data) ==
    [store EXCEPT ![KeyOf(Prefix(t), data.date)] = Json(data),
                  ![KeyOf(Prefix(t), Yesterday(data.date))] = Json(data)]
Stored(t, data) ==
    [store EXCEPT ![KeyOf(Prefix(t), data.date)] = Json(data)]

\* await s3Client.send(PutObjectCommand) answers: the object is stored, or
\* the request is rejected and the save function rethrows.
PutResponse ==
    /\ rpc = "put"
    /\ \/ /\ store' = Stored(report, snapshot)
          /\ IF report = "error"
             THEN /\ Launch(Loads)
                  /\ rpc' = "compare"
                  /\ UNCHANGED <<outcome, handlerVars>>
             ELSE /\ Returns(RunResult(report, snapshot, Null))
                  /\ UNCHANGED <<connVars, queries>>
       \/ /\ Returns(RunError)
          /\ UNCHANGED <<connVars, queries, store>>
    /\ UNCHANGED <<report, results, reordered, snapshot, cw, putLog, pureVars>>

\* !comparison || (!comparison.duplicateAppClients &&
\*   !comparison.duplicateDeviceClients && !comparison.authFailureAppClients)
NeedsLiveComparison(comparison) ==
    \/ IsNull(comparison)
    \/ /\ "duplicateAppClients" \notin DOMAIN comparison
       /\ "duplicateDeviceClients" \notin DOMAIN comparison
       /\ "authFailureAppClients" \notin DOMAIN comparison

\* await getErrorStatisticsFromS3(yesterdayDate) resumes: the stored snapshot
\* is the comparison, or the three contributors are queried for yesterday.
Compare ==
    /\ rpc = "compare"
    /\ \A c \in Loads : Ended(c)
    /\ LET comparison == ret["previous"]
       IN  IF NeedsLiveComparison(comparison)
           THEN /\ Launch(Contributor)
                /\ results' = [i \in 1..Len(FanOut(report)) |-> Pending(report, i)]
                /\ reordered' = FALSE
                /\ rpc' = "fallback"
                /\ UNCHANGED <<outcome, handlerVars>>
           ELSE /\ Returns(RunResult(report, snapshot, comparison))
                /\ UNCHANGED <<connVars, queries, results, reordered>>
    /\ UNCHANGED <<report, snapshot, store, cw, putLog, pureVars>>

\* await getDailyIoTErrorStatistics(yesterdayDate) resumes.
FallbackJoin ==
    /\ rpc = "fallback"
    /\ JoinReady(results)
    /\ Returns(RunResult(report, snapshot, ErrorStatistics(Yesterday(Today), results)))
    /\ UNCHANGED <<connVars, queries, report, results, reordered, snapshot, store, cw, putLog,
                   pureVars>>

\* await sendToDingTalk(message) answers: the handler goes on to the next
\* report, or after the last one returns statusCode 200; a rejected request
\* is rethrown and the handler's catch returns statusCode 500.
SendResponse ==
    /\ hpc = "send"
    /\ \/ /\ hpc' = IF report = "error" THEN "returned" ELSE "next"
          /\ statusCode' = IF report = "error" THEN 200 ELSE statusCode
       \/ /\ hpc' = "returned"
          /\ statusCode' = 500
    /\ UNCHANGED <<connVars, runVars, queries, sent, pureVars>>

Next ==
    \/ \E t \in ReportTypes : RunStart(t)
    \/ \E c \in Redshift : SubmitResponse(c)
    \/ \E c \in Redshift : PollResponse(c, StatusResponses(RunStatus, RunReasons), MaxBusy)
    \/ \E c \in Redshift : FetchResponse(c, RunFetchResponses)
    \/ \E c \in MsgMetrics : MetricResponse(c, RunMetricResponses(c))
    \/ \E c \in Contributor :
          InsightResponse(c, IF rpc = "fallback" THEN YesterdayInsightResponses
                             ELSE RunInsightResponses)
    \/ \E c \in Inner : ErrorMetricsResponse(c)
    \/ \E c \in Loads : GetResponse(c)
    \/ Join
    \/ PutResponse
    \/ Compare
    \/ FallbackJoin
    \/ SendResponse

Spec == Init /\ [][Next]_vars

(***************************************************************************)
(* The three Redshift counters called together, as in the array literal of *)
(* getAWSIotCoreStatistic: the statement of one of them may stay in        *)
(* progress for all maxAttempts polls, while the other two are polled at   *)
(* the same time.                                                          *)
(***************************************************************************)
InitPolls ==
    /\ Quiescent
    /\ report = "none"
    /\ store = EmptyStore
    /\ input \in {[fn |-> "polls", slow |-> c] : c \in Redshift}
    /\ output = NoOutput
    /\ inv = <<>>

\* The three counters are called one after the other, each running up to its
\* first await.
InvokeCounters ==
    /\ \A d \in Calls : cpc[d] = "idle"
    /\ Launch(Redshift)
    /\ UNCHANGED <<runVars, handlerVars, pureVars>>

NextPolls ==
    \/ InvokeCounters
    \/ \E c \in Redshift : SubmitResponse(c)
    \/ \E c \in Redshift :
          PollResponse(c, StatusResponses(RunStatus, RunReasons),
                       IF c = input.slow THEN maxAttempts ELSE MaxBusy)
    \/ \E c \in Redshift : FetchResponse(c, RunFetchResponses)

SpecPolls == InitPolls /\ [][NextPolls]_vars

(***************************************************************************)
(* Properties of one connector call (SpecConnector).                       *)
(***************************************************************************)

\* The error field of the value connector c resolved with. The counters
\* resolve with a bare number, which has no such field.
ErrorMarker(c) == IF c \in Contributor THEN ret[c].error ELSE "none"

\* The zero-valued default of connector c.
ZeroDefault(c) ==
    IF c \in Contributor
    THEN /\ ret[c].totalEvents = 0
         /\ ret[c].uniqueClients = 0
         /\ RecordsOf(c, ret[c]) = <<>>
    ELSE ret[c] = 0

\* C1: a query whose status polls all return an in-progress status is polled
\* exactly maxAttempts (60) times, never more; the wait then ends with the
\* timeout error, and the counter returns 0 without a fetch request.
C1_TimeoutAfter60Polls ==
    \A c \in Redshift :
        /\ polls[c] <= maxAttempts
        /\ (cpc[c] = "poll" => polls[c] = attempts[c] + 1)
        /\ (/\ cpc[c] \notin {"idle", "submit", "poll"}
            /\ polls[c] > 0
            /\ status[c] \in InProgress
            /\ caught[c].kind # "RequestError")
           => /\ caught[c] = QueryTimeout
              /\ polls[c] = maxAttempts
              /\ fetches[c] = 0
              /\ cpc[c] = "returned"
              /\ ret[c] = 0
        /\ (caught[c] = QueryTimeout => polls[c] = maxAttempts /\ fetches[c] = 0)

C1_Witness ==
    \E c \in Redshift :
        cpc[c] = "returned" /\ caught[c] = QueryTimeout /\ polls[c] = maxAttempts

\* C2: when the k-th status poll is the first to return FINISHED
\* (1 <= k <= 60), the connector has issued exactly k polls, raises neither
\* the timeout nor the failure error, issues the fetch request only then, and
\* returns the longValue of the first cell of the result.
C2_SuccessPath ==
    \A c \in Redshift :
        /\ (cpc[c] \in {"submit", "poll"} => fetches[c] = 0 /\ ~sawFinished[c])
        /\ sawFinished[c] =>
              /\ status[c] = "FINISHED"
              /\ polls[c] = attempts[c] + 1
              /\ polls[c] \in 1..maxAttempts
              /\ fetches[c] = 1
              /\ caught[c].kind \notin {"QueryTimeout", "QueryFailed"}
              /\ (cpc[c] = "fetch" => response[c] = NoResponse)
              /\ (Ended(c) /\ response[c].kind = "long" =>
                     cpc[c] = "returned" /\ ret[c] = response[c].longValue)

C2_Witness ==
    \E c \in Redshift :
        /\ sawFinished[c] /\ polls[c] = 4 /\ cpc[c] = "returned"
        /\ response[c].kind = "long" /\ ret[c] = MaxCount

\* C3: a counter issues the fetch request only if some status poll of its
\* query returned FINISHED.
C3_FetchOnlyAfterFinished ==
    \A c \in Redshift : fetches[c] > 0 => sawFinished[c]

\* C4: a FAILED status ends the wait at once: that poll is the last one, no
\* fetch request is issued, the error raised carries statusResponse.Error,
\* and the counter catches it and returns 0.
C4_FailedIsHardError ==
    \A c \in Redshift :
        /\ status[c] = "FAILED" =>
              /\ cpc[c] = "returned"
              /\ ret[c] = 0
              /\ statusError[c] \in Reasons
              /\ caught[c] = [kind |-> "QueryFailed", reason |-> statusError[c]]
              /\ fetches[c] = 0
              /\ polls[c] = attempts[c] + 1
        /\ caught[c].kind = "QueryFailed" => status[c] = "FAILED"

C4_Witness ==
    \E c \in Redshift :
        status[c] = "FAILED" /\ statusError[c] = "permission denied" /\ polls[c] = 3

\* C5: no connector call rejects; a call that met any failure (a rejected
\* request, a malformed response, a FAILED or timed-out query) resolves with
\* its zero-valued default.
C5_ConnectorsNeverThrow ==
    \A c \in Conn :
        /\ cpc[c] # "rejected"
        /\ (caught[c] # NoError => cpc[c] = "returned" /\ ZeroDefault(c))

C5_Witness ==
    \E c \in Redshift :
        cpc[c] = "returned" /\ caught[c] = RequestError("fetch") /\ sawFinished[c]

\* C6: a connector call that failed resolves with a value that carries an
\* error marker.
C6_FailureIsMarked ==
    \A c \in Conn :
        (cpc[c] = "returned" /\ caught[c] # NoError) => ErrorMarker(c) # "none"

(***************************************************************************)
(* Properties of a run (Spec).                                             *)
(***************************************************************************)

\* The group of the error snapshot that connector c fills.
GroupOf(stats, c) ==
    IF c = "duplicateApp" THEN stats.duplicateAppClients
    ELSE IF c = "duplicateDevice" THEN stats.duplicateDeviceClients
    ELSE stats.authFailureAppClients

\* The report of connector c repeats what the rule report r said.
SameAsSource(c, rep, r) ==
    /\ rep.totalEvents = r.AggregateValue
    /\ rep.uniqueClients = r.ApproximateUniqueCount
    /\ rep.error = "none"
    /\ Len(RecordsOf(c, rep)) = Len(r.Contributors)
    /\ \A i \in 1..Len(r.Contributors) :
          /\ RecordsOf(c, rep)[i].rank = i
          /\ RecordsOf(c, rep)[i].clientId = r.Contributors[i].Keys[1]
          /\ RecordsOf(c, rep)[i].duplicateCount = r.Contributors[i].ApproximateAggregateValue

\* C7: in a run of the error report in which exactly one of the three
\* contributor fetches throws, whatever the order of completion, the snapshot
\* holds for the other two groups what their sources returned, the failed
\* group has totalEvents = 0, uniqueClients = 0, no records and its error
\* marker, and the run gets to the put without throwing.
C7_OneContributorFails ==
    /\ (report = "error" /\ rpc = "done") => Len(putLog) = 1
    /\ (/\ report = "error"
        /\ rpc \in {"fanout", "put"}
        /\ \A c \in Contributor : Ended(c)
        /\ Cardinality(Failed(Contributor)) = 1)
       => /\ \A c \in Contributor :
                /\ cpc[c] = "returned"
                /\ IF c \in Failed(Contributor)
                   THEN /\ ret[c].totalEvents = 0
                        /\ ret[c].uniqueClients = 0
                        /\ RecordsOf(c, ret[c]) = <<>>
                        /\ ret[c].error # "none"
                   ELSE SameAsSource(c, ret[c], response[c])
          /\ outcome = NoOutcome
          /\ rpc = "put" =>
                /\ Len(putLog) = 1
                /\ \A c \in Contributor : GroupOf(snapshot, c) = ret[c]

C7_Witness ==
    /\ report = "error"
    /\ rpc = "put"
    /\ reordered
    /\ Failed(Contributor) = {"duplicateDevice"}
    /\ response["duplicateDevice"].kind = "report"
    /\ Len(snapshot.duplicateAppClients.duplicateClients) = 1
    /\ snapshot.authFailureAppClients.totalEvents = MaxCount

\* C8: in a run of any report type the put is requested only when no
\* connector call of the run is in flight, at most once, and a run that has
\* not got past the join, or ended before the put, has written nothing.
C8_PutOnlyAfterJoin ==
    /\ Len(putLog) <= 1
    /\ \A i \in 1..Len(putLog) :
          /\ putLog[i].inflight = {}
          /\ putLog[i].key = KeyOf(Prefix(report), Today)
    /\ (rpc \in {"idle", "fanout"} => putLog = <<>>)
    /\ (report \in ReportTypes /\ putLog = <<>>) =>
          store[KeyOf(Prefix(report), Today)] = Absent
    /\ (report \in ReportTypes /\ store[KeyOf(Prefix(report), Today)] # Absent) =>
          /\ store[KeyOf(Prefix(report), Today)] = Json(snapshot)
          /\ rpc \notin {"idle", "fanout", "put"}

C8_Witness ==
    /\ report = "core"
    /\ rpc = "done"
    /\ Len(putLog) = 1
    /\ store[KeyOf(Prefix(report), Today)] = Json(snapshot)
    /\ polls["gateway"] = MaxBusy + 1
    /\ caught["device"] # NoError

\* The leaves of a snapshot that the calls of the run fill, each read from
\* the value its own call returned.
OwnLeaves(t, stats) ==
    IF t = "core"
    THEN /\ stats.accountThingCount = ret["account"]
         /\ stats.deviceThingCount = ret["device"] + ret["gateway"]
         /\ stats.yesterdayData.accountThingCount = Field(ret["previous"], "accountThingCount")
         /\ stats.yesterdayData.deviceThingCount = Field(ret["previous"], "deviceThingCount")
         /\ stats.yesterdayData.totalThingCount = Field(ret["previous"], "totalThingCount")
    ELSE IF t = "message"
    THEN /\ stats.inbound.success = ret["PublishIn.Success"]
         /\ stats.inbound.clientError = ret["PublishIn.ClientError"]
         /\ stats.inbound.serverError = ret["PublishIn.ServerError"]
         /\ stats.outbound.success = ret["PublishOut.Success"]
         /\ stats.outbound.clientError = ret["PublishOut.ClientError"]
         /\ stats.outbound.serverError = ret["PublishOut.ServerError"]
         /\ stats.connections.success = ret["Connect.Success"]
         /\ stats.connections.clientError = ret["Connect.ClientError"]
         /\ stats.connections.serverError = ret["Connect.ServerError"]
         /\ stats.connections.disconnects = ret["Disconnect.Success"]
         /\ stats.subscriptions.subscribe = ret["Subscribe.Success"]
         /\ stats.subscriptions.unsubscribe = ret["Unsubscribe.Success"]
    ELSE IF t = "error"
    THEN \A c \in Contributor : GroupOf(stats, c) = ret[c]
    ELSE /\ stats.duplicateClients.applications = ret["duplicateApp"]
         /\ stats.duplicateClients.devices = ret["duplicateDevice"]
         /\ stats.connectionErrors.authError = ret["errorMetrics"]["Connect.AuthError"]
         /\ stats.connectionErrors.throttle = ret["errorMetrics"]["Connect.Throttle"]
         /\ stats.publishInErrors.clientError = ret["errorMetrics"]["PublishIn.ClientError"]
         /\ stats.publishOutErrors.serverError = ret["errorMetrics"]["PublishOut.ServerError"]
         /\ stats.subscribeErrors.throttle = ret["errorMetrics"]["Subscribe.Throttle"]

\* C9: the snapshot a run assembles holds in each group the value that
\* group's own connector returned (the device count being the sum of what the
\* device and the gateway counters returned), in whatever order the
\* concurrent calls completed.
C9_OwnResultWhateverTheOrder ==
    rpc = "put" => OwnLeaves(report, snapshot)

C9_Witness ==
    /\ rpc = "put"
    /\ reordered
    /\ report = "core"
    /\ ret["account"] = 0
    /\ ret["device"] = MaxCount
    /\ ret["gateway"] = 0
    /\ results[3].settled

\* The derived totals of a snapshot are the sums of its own leaves.
TotalsAdd(t, stats) ==
    IF t = "core"
    THEN stats.totalThingCount = stats.accountThingCount + stats.deviceThingCount
    ELSE IF t = "message"
    THEN /\ \A g \in {stats.inbound, stats.outbound, stats.connections} :
               g.total = g.success + g.clientError + g.serverError
         /\ stats.totalMessages = stats.inbound.total + stats.outbound.total
    ELSE IF t = "errorV1"
    THEN stats.totalErrors =
             stats.connectionErrors.total + stats.publishInErrors.total
             + stats.publishOutErrors.total + stats.subscribeErrors.total
    ELSE TRUE

\* C10: in every snapshot a run assembles, whichever sources failed, each
\* derived total is the sum of its component leaves of that snapshot, and
\* every source of the run was queried once.
C10_TotalsAreSums ==
    (snapshot # NoSnapshot /\ report \in {"core", "message", "errorV1"}) =>
        /\ TotalsAdd(report, snapshot)
        /\ \A c \in Calls : queries[c] = IF c \in Range(FanOut(report)) THEN 1 ELSE 0

C10_Witness ==
    /\ report = "message"
    /\ rpc = "put"
    /\ Failed(MsgMetrics) = {"PublishIn.Success"}
    /\ snapshot.outbound.serverError = MaxCount
    /\ snapshot.outbound.total = MaxCount + 1
    /\ snapshot.totalMessages = MaxCount + 2

\* The groups of the snapshot of the error report.
ErrorGroups == {"duplicateAppClients", "duplicateDeviceClients", "authFailureAppClients"}

\* b is the snapshot of report type t with every numeric leaf 0 and every
\* structured leaf an empty report.
ZeroBaseline(t, b) ==
    IF t = "core"
    THEN \A f \in {"accountThingCount", "deviceThingCount", "totalThingCount"} :
            f \in DOMAIN b /\ b[f] = 0
    ELSE \A g \in ErrorGroups :
            /\ g \in DOMAIN b
            /\ b[g].totalEvents = 0
            /\ b[g].uniqueClients = 0

\* C11: a snapshot get that meets a missing object, a failed read or a body
\* that is not JSON resolves (never rejects) with the zero baseline of its
\* report type: numeric leaves 0, structured leaves empty reports.
C11_GetReturnsZeroBaseline ==
    \A c \in Loads :
        (Ended(c) /\ caught[c] # NoError) =>
            /\ cpc[c] = "returned"
            /\ ZeroBaseline(report, ret[c])

\* The leaf f of the snapshot stored under yesterday's key, as the run read
\* it: 0 when the get failed, the body is not an object with that leaf.
StoredLeaf(f) ==
    LET obj == store[KeyOf(Prefix(report), Yesterday(Today))]
    IN  IF caught["previous"] = NoError /\ obj.kind = "json" /\ f \in DOMAIN obj.body
        THEN obj.body[f]
        ELSE 0

\* C12: in the core snapshot each increment (account, device, total) is
\* today's value minus yesterday's stored value, a leaf missing from
\* yesterday's snapshot, or an absent snapshot, counting as 0.
C12_IncrementIsTodayMinusYesterday ==
    (report = "core" /\ snapshot # NoSnapshot) =>
        /\ snapshot.accountThingIncrement =
              snapshot.accountThingCount - StoredLeaf("accountThingCount")
        /\ snapshot.deviceThingIncrement =
              snapshot.deviceThingCount - StoredLeaf("deviceThingCount")
        /\ snapshot.totalThingIncrement =
              snapshot.totalThingCount - StoredLeaf("totalThingCount")

C12_Witness ==
    /\ report = "core"
    /\ rpc = "put"
    /\ store[KeyOf(Prefix(report), Yesterday(Today))] = Json(PartialCore)
    /\ snapshot.accountThingCount = MaxCount
    /\ snapshot.accountThingIncrement = MaxCount - 1
    /\ snapshot.deviceThingCount = MaxCount
    /\ snapshot.deviceThingIncrement = MaxCount

C12_WitnessAbsent ==
    /\ report = "core"
    /\ rpc = "put"
    /\ store[KeyOf(Prefix(report), Yesterday(Today))] = Absent
    /\ snapshot.totalThingCount = MaxCount
    /\ snapshot.totalThingIncrement = MaxCount

\* The put of today's snapshot was sent and rejected: the entry point's catch
\* block built the error object after a put was logged.
PutFailed == rpc = "done" /\ putLog # <<>> /\ outcome.kind = "error"

\* A message was handed to sendToDingTalk and the request was rejected.
SendFailed == hpc = "returned" /\ statusCode = 500 /\ sent # NoMessage

\* C13: for the core, message and error report, when the put of today's
\* snapshot fails the scheduled run ends with statusCode 500 and no report of
\* that type is handed to delivery.
C13_PutFailureIsRunFailure ==
    (report \in {"core", "message", "error"} /\ PutFailed) =>
        /\ sent = NoMessage
        /\ statusCode # 200
        /\ hpc = "returned" => statusCode = 500

\* C14: when no put and no delivery fails, the handler does not end with a
\* failure: the report is rendered and handed to delivery, and the run goes
\* on (or, after the last report, returns statusCode 200), whatever the
\* sources and the previous-day snapshot gave.
C14_OnlyPutOrSendAborts ==
    (report \in {"core", "message", "error"} /\ rpc = "done" /\ ~PutFailed /\ ~SendFailed) =>
        /\ sent # NoMessage
        /\ hpc \in {"send", "next"} \/ (hpc = "returned" /\ statusCode = 200)

\* C16: getAWSIoTErrorStatistic queries the sources a second time, for the
\* previous date, only when no object is stored under the previous date's
\* key: whenever an object is stored there, no second fan-out is launched.
C16_LiveComparisonOnlyWhenAbsent ==
    (report = "error" /\ rpc = "fallback") =>
        store[KeyOf(Prefix("error"), Yesterday(Today))] = Absent

\* The records of the report a contributor connector returned.
ReturnedRecords(c) ==
    IF cpc[c] = "returned" THEN RecordsOf(c, ret[c]) ELSE <<>>

\* C18: in the report of a contributor connector each record's percentage is
\* a number, count / total * 100 rounded to two decimals, and it is 0 when
\* the total is 0: it is never NaN and never infinite.
C18_PercentageIsANumber ==
    \A c \in Contributor :
        \A i \in 1..Len(ReturnedRecords(c)) :
            LET rec == ReturnedRecords(c)[i]
            IN  /\ rec.percentage.text \notin {"NaN", "Infinity"}
                /\ ret[c].totalEvents = 0 => rec.percentage.hundredths = 0

\* C20: in the report of a contributor connector the ranks are 1..n in
\* sequence order and the records are in descending order of their count.
C20_RankedByDescendingCount ==
    \A c \in Contributor :
        LET recs == ReturnedRecords(c)
        IN  /\ \A i \in 1..Len(recs) : recs[i].rank = i
            /\ \A i \in 1..Len(recs) - 1 : recs[i].duplicateCount >= recs[i + 1].duplicateCount

(***************************************************************************)
(* The functions without a request of their own, applied to arguments      *)
(* drawn from bounded sets: the period of the contributor connectors, the  *)
(* success rate of the message aggregator and the renderers.               *)
(***************************************************************************)
MaxHours == 30
MaxRecords == 6

\* The period of getTop10DuplicateAppClients:
\*   const timeDiffSeconds = Math.floor((endTime - startTime) / 1000);
\*   let period = Math.min(86400, Math.max(3600, timeDiffSeconds));
\*   period = Math.floor(period / 60) * 60;
\*   if (period < 60) period = 60;
\* with the times in milliseconds.
PeriodNotRounded(startTime, endTime) ==
    LET timeDiffSeconds == (endTime - startTime) \div 1000
        atLeast == IF timeDiffSeconds > 3600 THEN timeDiffSeconds ELSE 3600
    IN  IF atLeast < 86400 THEN atLeast ELSE 86400

PeriodDuplicateApp(startTime, endTime) ==
    LET timeDiffSeconds == (endTime - startTime) \div 1000
        atLeast == IF timeDiffSeconds > 3600 THEN timeDiffSeconds ELSE 3600
        clamped == IF atLeast < 86400 THEN atLeast ELSE 86400
        period == (clamped \div 60) * 60
    IN  IF period < 60 THEN 60 ELSE period

\* The same lines of getTop10DuplicateDeviceClients.
PeriodDuplicateDevice(startTime, endTime) ==
    LET timeDiffSeconds == (endTime - startTime) \div 1000
        atLeast == IF timeDiffSeconds > 3600 THEN timeDiffSeconds ELSE 3600
        clamped == IF atLeast < 86400 THEN atLeast ELSE 86400
        period == (clamped \div 60) * 60
    IN  IF period < 60 THEN 60 ELSE period

\* The same lines of getTop10AuthFailureAPPClients.
PeriodAuthFailure(startTime, endTime) ==
    LET timeDiffSeconds == (endTime - startTime) \div 1000
        atLeast == IF timeDiffSeconds > 3600 THEN timeDiffSeconds ELSE 3600
        clamped == IF atLeast < 86400 THEN atLeast ELSE 86400
        period == (clamped \div 60) * 60
    IN  IF period < 60 THEN 60 ELSE period

\* params.Period of contributor connector c.
Period(c, startTime, endTime) ==
    IF c = "duplicateApp" THEN PeriodDuplicateApp(startTime, endTime)
    ELSE IF c = "duplicateDevice" THEN PeriodDuplicateDevice(startTime, endTime)
    ELSE PeriodAuthFailure(startTime, endTime)

\* Windows in milliseconds (start <= end): whole hours up to MaxHours, and
\* those plus ten minutes, plus an odd number of milliseconds, plus a second
\* over a minute, and plus a second less than an hour.
Windows ==
    {h * 3600000 + e : h \in 0..MaxHours, e \in {0, 600000, 59999, 61000, 3599000}}
StartTimes == {0, 999}

PeriodInputs ==
    {[fn |-> "period", c |-> c, startTime |-> s, endTime |-> s + w] :
        c \in Contributor, s \in StartTimes, w \in Windows}

\* Statistics objects of the core aggregator, for every count of the three
\* sources and no snapshot of the previous day.
CoreInputs ==
    {[fn |-> "formatIoTStatisticsMessage",
      statistics |-> CoreStatistics(<<[value |-> a], [value |-> s], [value |-> g],
                                      [value |-> LoadDefault("core")]>>)] :
        a \in Counts, s \in Counts, g \in Counts}

\* The three metric values of one direction of the message aggregator.
RateInputs ==
    {[fn |-> "successRate", success |-> s, clientError |-> c, serverError |-> e] :
        s \in Counts, c \in Counts, e \in Counts}

\* Statistics objects of the error aggregator.
ErrorInputs ==
    {[fn |-> "formatIoTErrorStatisticsMessage",
      statistics |-> ErrorStatistics(Today,
                        <<[value |-> Report("duplicateApp", t, u, <<>>, "none")],
                          [value |-> Report("duplicateDevice", d, d, <<>>, "none")],
                          [value |-> Report("authFailureApp", a, u, <<>>, "RequestError")]>>),
      comparison |-> Null] :
        t \in Counts, u \in Counts, d \in Counts, a \in Counts}

\* A client identifier of k characters.
RECURSIVE Pad(_)
Pad(k) == IF k = 0 THEN "" ELSE Pad(k - 1) \o "x"
IdOfLength(k) == "AP/" \o Pad(k - 3)
IdLengths == {4, 50, 51, 60}

\* The report of connector c for a rule report of n contributors, the i-th
\* with count n - i + 1 and an identifier of k characters.
RankedReport(c, n, k) ==
    LET r == [kind |-> "report", AggregateValue |-> (n * (n + 1)) \div 2,
              ApproximateUniqueCount |-> n, hasContributors |-> TRUE,
              Contributors |-> [i \in 1..n |->
                                  Contribution(<<IdOfLength(k), "10.0.0.1">>, n - i + 1)]]
    IN  Report(c, r.AggregateValue, r.ApproximateUniqueCount, ContributorRecords(r), "none")

\* Statistics objects in which one group holds up to MaxRecords records.
ListInputs ==
    {[fn |-> "formatIoTErrorStatisticsMessage",
      statistics |-> ErrorStatistics(Today,
                        <<[value |-> RankedReport("duplicateApp",
                                                  IF c = "duplicateApp" THEN n ELSE 0, k)],
                          [value |-> RankedReport("duplicateDevice",
                                                  IF c = "duplicateDevice" THEN n ELSE 0, k)],
                          [value |-> RankedReport("authFailureApp",
                                                  IF c = "authFailureApp" THEN n ELSE 0, k)]>>),
      comparison |-> Null] :
        c \in Contributor, n \in 1..MaxRecords, k \in IdLengths}

\* Statistics objects whose total is at, just below and just above each
\* step of the severity ladder.
SeverityTotals ==
    {b + e : b \in {1000, 10000, 50000}, e \in {-1, 0, 1}} \cup {1, 5000, 20000, 100000}
SeverityInputs ==
    {[fn |-> "formatIoTErrorStatisticsMessage",
      statistics |-> ErrorStatistics(Today,
                        <<[value |-> Report("duplicateApp", n - a, 1, <<>>, "none")],
                          [value |-> Report("duplicateDevice", 0, 0, <<>>, "none")],
                          [value |-> Report("authFailureApp", a, 1, <<>>, "none")]>>),
      comparison |-> Null] :
        n \in SeverityTotals, a \in {0, 1}}

\* Today's statistics with yesterday's: a stored snapshot of the same
\* groups, or the default of the snapshot get, which has none of them.
TrendCounts == 0..(MaxCount + 1)
GroupTotals(date, a, d) ==
    ErrorStatistics(date,
        <<[value |-> Report("duplicateApp", a, 1, <<>>, "none")],
          [value |-> Report("duplicateDevice", d, 1, <<>>, "none")],
          [value |-> Report("authFailureApp", a, 1, <<>>, "none")]>>)
ComparisonInputs ==
    {[fn |-> "formatIoTErrorStatisticsMessage",
      statistics |-> GroupTotals(Today, a, d),
      comparison |-> GroupTotals(Yesterday(Today), ya, yd)] :
        a \in TrendCounts, d \in TrendCounts, ya \in TrendCounts, yd \in TrendCounts}
    \cup
    {[fn |-> "formatIoTErrorStatisticsMessage",
      statistics |-> GroupTotals(Today, a, d),
      comparison |-> LoadDefault("error")] : a \in TrendCounts, d \in TrendCounts}

InitPure ==
    /\ Quiescent
    /\ report = "none"
    /\ store = EmptyStore
    /\ input \in PeriodInputs \cup CoreInputs \cup RateInputs \cup ErrorInputs \cup ListInputs
                \cup SeverityInputs \cup ComparisonInputs
    /\ output = NoOutput
    /\ inv = <<>>

\* A contributor connector computes params.Period.
NormalizePeriod ==
    /\ input.fn = "period"
    /\ output = NoOutput
    /\ output' = [fn |-> input.fn, value |-> Period(input.c, input.startTime, input.endTime)]
    /\ UNCHANGED <<connVars, runVars, queries, handlerVars, input, inv>>

\* formatIoTStatisticsMessage(statistics)
FormatCore ==
    /\ input.fn = "formatIoTStatisticsMessage"
    /\ output = NoOutput
    /\ output' = [fn |-> input.fn, value |-> formatIoTStatisticsMessage(input.statistics)]
    /\ UNCHANGED <<connVars, runVars, queries, handlerVars, input, inv>>

\* getDailyMessageStatistics: the total and the success rate of a direction.
ComputeSuccessRate ==
    /\ input.fn = "successRate"
    /\ output = NoOutput
    /\ LET total == DirectionTotal(input.success, input.clientError, input.serverError)
       IN  output' = [fn |-> input.fn,
                      value |-> [total |-> total,
                                 successRate |-> SuccessRate(input.success, total)]]
    /\ UNCHANGED <<connVars, runVars, queries, handlerVars, input, inv>>

\* formatIoTErrorStatisticsMessage(statistics, comparison)
FormatError ==
    /\ input.fn = "formatIoTErrorStatisticsMessage"
    /\ output = NoOutput
    /\ output' = [fn |-> input.fn,
                  value |-> formatIoTErrorStatisticsMessage(input.statistics, input.comparison)]
    /\ UNCHANGED <<connVars, runVars, queries, handlerVars, input, inv>>

NextPure ==
    \/ NormalizePeriod
    \/ FormatCore
    \/ ComputeSuccessRate
    \/ FormatError

SpecPure == InitPure /\ [][NextPure]_vars

(***************************************************************************)
(* Two invocations of one entry point on the same date, one after the      *)
(* other or overlapping, with the answers of the sources fixed.            *)
(***************************************************************************)
Invocations == {1, 2}

\* What the snapshot get returns when its request is answered: the parsed
\* body, or the default of its catch block.
Loaded(t, obj) == IF obj.kind = "json" THEN obj.body ELSE LoadDefault(t)

\* The key the snapshot get reads: yesterday's.
BaselineKeyToday(t) == KeyOf(Prefix(t), Today)
BaselineKey(t) == KeyOf(Prefix(t), Yesterday(Today))

\* The key the save function writes: built from the date alone.
SaveKey(t, data) == KeyOf(Prefix(t), data.date)

\* timestamp: new Date().toISOString()
Stamp(obj, now) ==
    [f \in DOMAIN obj \cup {"timestamp"} |-> IF f = "timestamp" THEN now ELSE obj[f]]
\* obj without its timestamp.
Unstamped(obj) == [f \in DOMAIN obj \ {"timestamp"} |-> obj[f]]

TwiceInputs ==
    {[fn |-> "twice", t |-> "core",
      sources |-> <<[value |-> a], [value |-> s], [value |-> g]>>,
      previous |-> obj] :
        a \in Counts, s \in Counts, g \in Counts, obj \in PreviousObjects("core")}
    \cup
    {[fn |-> "twice", t |-> "error",
      sources |-> <<[value |-> Report("duplicateApp", n, u, <<>>, "none")],
                    [value |-> Report("duplicateDevice", 0, 0, <<>>, "RequestError")],
                    [value |-> Report("authFailureApp", u, 1, <<>>, "none")]>>,
      previous |-> obj] :
        n \in Counts, u \in Counts, obj \in PreviousObjects("error")}

NotInvoked == [pc |-> "idle", snapshot |-> NoSnapshot, comparison |-> Null]

InitTwice ==
    /\ Quiescent
    /\ input \in TwiceInputs
    /\ report = input.t
    /\ store = [EmptyStore EXCEPT ![KeyOf(Prefix(input.t), Yesterday(Today))] = input.previous]
    /\ output = [fn |-> "twice", clock |-> 1, writes |-> <<>>]
    /\ inv = [i \in Invocations |-> NotInvoked]

\* Invocation i calls the entry point: the fan-out is launched.
TwiceBegin(i) ==
    /\ inv[i].pc = "idle"
    /\ inv' = [inv EXCEPT ![i].pc = "fanout"]
    /\ UNCHANGED <<connVars, runVars, queries, handlerVars, input, output>>

\* await Promise.all of invocation i resumes with the answers of the sources
\* and, for the core report, the previous day's snapshot: the statistics
\* object is built and the put is sent.
TwiceJoin(i) ==
    /\ inv[i].pc = "fanout"
    /\ LET previous == Loaded(report, store[BaselineKey(report)])
           res == IF report = "core"
                  THEN Append(input.sources, [value |-> previous])
                  ELSE input.sources
       IN  IF report = "core" /\ IsNull(previous)
           THEN inv' = [inv EXCEPT ![i].pc = "failed"]
           ELSE inv' = [inv EXCEPT ![i].pc = "put",
                                   ![i].snapshot = Stamp(Statistics(report, res), output.clock)]
    /\ output' = [output EXCEPT !.clock = @ + 1]
    /\ UNCHANGED <<connVars, runVars, queries, handlerVars, input>>

\* The put of invocation i is answered: the object under the key is replaced
\* by the snapshot, or the request is rejected.
TwicePut(i) ==
    /\ inv[i].pc = "put"
    /\ \/ /\ store' = [store EXCEPT ![SaveKey(report, inv[i].snapshot)] = Json(inv[i].snapshot)]
          /\ output' = [output EXCEPT !.writes = Append(@, inv[i].snapshot)]
          /\ inv' = [inv EXCEPT ![i].pc = IF report = "error" THEN "compare" ELSE "done"]
       \/ /\ inv' = [inv EXCEPT ![i].pc = "failed"]
          /\ UNCHANGED <<store, output>>
    /\ UNCHANGED <<connVars, queries, handlerVars, input, report, rpc, results, reordered,
                   snapshot, cw, putLog, outcome>>

\* The error report's comparison of invocation i: the stored snapshot of the
\* previous day, or the sources asked again for that day.
TwiceCompare(i) ==
    /\ inv[i].pc = "compare"
    /\ LET comparison == Loaded(report, store[BaselineKey(report)])
       IN  inv' = [inv EXCEPT ![i].pc = "done",
                              ![i].comparison =
                                  IF NeedsLiveComparison(comparison)
                                  THEN ErrorStatistics(Yesterday(Today), input.sources)
                                  ELSE comparison]
    /\ UNCHANGED <<connVars, runVars, queries, handlerVars, input, output>>

NextTwice ==
    \E i \in Invocations :
        \/ TwiceBegin(i)
        \/ TwiceJoin(i)
        \/ TwicePut(i)
        \/ TwiceCompare(i)

SpecTwice == InitTwice /\ [][NextTwice]_vars

\* The invocations whose statistics object has been built.
Computed == {i \in Invocations : inv[i].snapshot # NoSnapshot}

\* C15: after any number of steps of two invocations for the same date, with
\* the sources and the previous day's snapshot unchanged, the store holds
\* under that date's key of the report type the snapshot of the latest put
\* and nothing else has been written; that snapshot equals the first one
\* written apart from the timestamp; and the invocations compute the same
\* statistics, deltas included, and the same comparison.
C15_TwiceLeavesOneSnapshot ==
    output.fn = "twice" =>
        LET key == KeyOf(Prefix(report), Today)
            writes == output.writes
        IN  /\ \A k \in Keys \ {key} :
                  store[k] = IF k = KeyOf(Prefix(report), Yesterday(Today))
                             THEN input.previous ELSE Absent
            /\ writes = <<>> => store[key] = Absent
            /\ writes # <<>> =>
                  /\ store[key] = Json(writes[Len(writes)])
                  /\ Unstamped(store[key].body) = Unstamped(writes[1])
            /\ \A i \in Computed : \A j \in Computed :
                  Unstamped(inv[i].snapshot) = Unstamped(inv[j].snapshot)
            /\ \A i \in Invocations : \A j \in Invocations :
                  (inv[i].pc = "done" /\ inv[j].pc = "done") =>
                      inv[i].comparison = inv[j].comparison

\* Both invocations have put, in the order they were computed: the second
\* put replaced the first.
C15_Witness ==
    /\ output.fn = "twice"
    /\ report = "core"
    /\ Len(output.writes) = 2
    /\ output.writes[1].timestamp < output.writes[2].timestamp
    /\ store[KeyOf(Prefix(report), Today)].body.timestamp = output.writes[2].timestamp
    /\ output.writes[2].totalThingIncrement # 0

\* Overlapping: the invocation that built its snapshot later put it first.
C15_WitnessOverlapping ==
    /\ output.fn = "twice"
    /\ report = "error"
    /\ Len(output.writes) = 2
    /\ output.writes[1].timestamp > output.writes[2].timestamp
    /\ \A i \in Invocations : inv[i].pc = "done"

\* The window of the period input, in whole seconds.
WindowSeconds == (input.endTime - input.startTime) \div 1000

\* C17: for every window the period is a multiple of 60 within
\* [3600, 86400]; it is the window's seconds, held to that interval, less the
\* remainder of a division by 60; a 10-minute window gives 3600 and a
\* 30-hour window gives 86400; the three contributor connectors compute the
\* same period for the same window.
C17_PeriodNormalized ==
    output.fn = "period" =>
        LET p == output.value
        IN  /\ p % 60 = 0
            /\ 3600 <= p /\ p <= 86400
            /\ WindowSeconds <= 3600 => p = 3600
            /\ WindowSeconds >= 86400 => p = 86400
            /\ (3600 < WindowSeconds /\ WindowSeconds < 86400) =>
                  (p <= WindowSeconds /\ WindowSeconds < p + 60)
            /\ input.endTime - input.startTime = 10 * 60 * 1000 => p = 3600
            /\ input.endTime - input.startTime = 30 * 60 * 60 * 1000 => p = 86400
            /\ \A c \in Contributor : Period(c, input.startTime, input.endTime) = p

C17_Witness ==
    /\ output.fn = "period"
    /\ input.c = "duplicateDevice"
    /\ input.endTime - input.startTime = 3600000 + 61000
    /\ output.value = 3660

C17_WitnessTenMinutes ==
    /\ output.fn = "period"
    /\ input.endTime - input.startTime = 10 * 60 * 1000
    /\ output.value = 3600

C17_WitnessThirtyHours ==
    /\ output.fn = "period"
    /\ input.endTime - input.startTime = 30 * 60 * 60 * 1000
    /\ output.value = 86400

\* The text of a percentage is not a number.
NotANumber(p) == p.text \in {"NaN", "Infinity"}

\* C19: the type shares of formatIoTStatisticsMessage, the success rate of
\* getDailyMessageStatistics and the overview shares and the average per
\* client of formatIoTErrorStatisticsMessage are 0 when their denominator is
\* 0, and are never NaN or infinite; the renderers do not throw.
C19_ZeroDenominatorGivesZero ==
    /\ output.fn = "formatIoTStatisticsMessage" =>
          LET m == output.value
          IN  /\ ~m.throws
              /\ ~NotANumber(m.accountShare) /\ ~NotANumber(m.deviceShare)
              /\ m.totalThingCount = 0 =>
                    (m.accountShare.hundredths = 0 /\ m.deviceShare.hundredths = 0)
    /\ output.fn = "successRate" =>
          /\ ~NotANumber(output.value.successRate)
          /\ output.value.total = 0 => output.value.successRate.hundredths = 0
    /\ output.fn = "formatIoTErrorStatisticsMessage" =>
          LET m == output.value
          IN  /\ ~m.throws
              /\ \A g \in DOMAIN m.shares :
                    /\ ~NotANumber(m.shares[g])
                    /\ m.totalErrors = 0 => m.shares[g].tenths = 0
                    /\ m.sections[g].shown
                    /\ ~NotANumber(m.sections[g].average)
                    /\ m.sections[g].uniqueClients = 0 => m.sections[g].average.value = 0

C19_Witness ==
    /\ output.fn = "formatIoTStatisticsMessage"
    /\ output.value.totalThingCount = 0
    /\ output.value.accountShare.text = "0"

C19_WitnessSuccessRate ==
    /\ output.fn = "successRate"
    /\ output.value.total = 0
    /\ output.value.successRate.hundredths = 0

C19_WitnessError ==
    /\ output.fn = "formatIoTErrorStatisticsMessage"
    /\ output.value.totalErrors = 0
    /\ output.value.sections["duplicateAppClients"].uniqueClients = 0
    /\ output.value.sections["duplicateAppClients"].average.value = 0

\* The name of the group of connector c in the error statistics.
GroupName(c) ==
    IF c = "duplicateApp" THEN "duplicateAppClients"
    ELSE IF c = "duplicateDevice" THEN "duplicateDeviceClients"
    ELSE "authFailureAppClients"

\* The list rendered for the group of connector c shows the first
\* min(n, 5) of the n stored records, in stored order, each identifier of
\* more than 50 characters as its first 47 and '...'.
ShowsFirstFive(c) ==
    LET stored == RecordsOf(c, GroupOf(input.statistics, c))
        listed == output.value.sections[GroupName(c)].listed
    IN  /\ Len(listed) = IF Len(stored) < 5 THEN Len(stored) ELSE 5
        /\ \A i \in 1..Len(listed) :
              /\ listed[i].duplicateCount = stored[i].duplicateCount
              /\ Len(listed[i].clientIdShort) <= 50
              /\ listed[i].clientIdShort =
                    IF Len(stored[i].clientId) > 50
                    THEN SubSeq(stored[i].clientId, 1, 47) \o "..."
                    ELSE stored[i].clientId

\* C21: formatIoTErrorStatisticsMessage renders, for each of the three
\* contributor groups whose stored report holds n records, a list of exactly
\* min(n, 5) entries, the first ones in stored order, and no displayed
\* identifier exceeds 50 characters.
C21_ListsShowFirstFive ==
    output.fn = "formatIoTErrorStatisticsMessage" =>
        \A c \in Contributor : ShowsFirstFive(c)

\* C22: the severity formatIoTErrorStatisticsMessage shows follows the
\* ladder for every total, the boundary values included: below 1,000
\* normal, from 1,000 attention, from 10,000 warning, from 50,000 critical.
C22_SeverityLadder ==
    (output.fn = "formatIoTErrorStatisticsMessage" /\ output.value.msgtype = "markdown") =>
        LET total == output.value.totalErrors
            severity == output.value.severity
        IN  /\ total < 1000 => severity \in {"healthy", "normal"}
            /\ (1000 <= total /\ total < 10000) => severity = "attention"
            /\ (10000 <= total /\ total < 50000) => severity = "warning"
            /\ total >= 50000 => severity = "critical"

\* C23: in the day-over-day section each indicator follows the sign of
\* today - yesterday (up, down, unchanged); the percent change is the
\* change over yesterday's value times 100, to one decimal, when
\* yesterday's value is not 0, and N/A otherwise; and when every group has
\* the same total on both days every change is 0 and every indicator is
\* 'unchanged'.
C23_TrendFollowsSign ==
    (output.fn = "formatIoTErrorStatisticsMessage" /\ ~IsNull(input.comparison)) =>
        /\ \A g \in ErrorGroups :
              LET item == output.value.comparisons[g]
                  today == GroupTotal(input.statistics, g)
                  yesterday == GroupTotal(input.comparison, g)
                  delta == today - yesterday
              IN  /\ item.change = delta
                  /\ delta > 0 => item.trend = "up"
                  /\ delta < 0 => item.trend = "down"
                  /\ delta = 0 => item.trend = "unchanged"
                  /\ yesterday = 0 => item.changePercent.text = "N/A"
                  /\ yesterday # 0 =>
                        /\ item.changePercent.text = "fixed"
                        /\ 2 * (item.changePercent.tenths * yesterday - 1000 * delta) <= yesterday
                        /\ 2 * (1000 * delta - item.changePercent.tenths * yesterday) <= yesterday
        /\ (\A g \in ErrorGroups :
               GroupTotal(input.statistics, g) = GroupTotal(input.comparison, g)) =>
              \A g \in ErrorGroups :
                  /\ output.value.comparisons[g].change = 0
                  /\ output.value.comparisons[g].trend = "unchanged"

C23_Witness ==
    /\ output.fn = "formatIoTErrorStatisticsMessage"
    /\ ~IsNull(input.comparison)
    /\ output.value.comparisons["duplicateAppClients"].trend = "down"
    /\ output.value.comparisons["duplicateAppClients"].changePercent.tenths = -333
    /\ output.value.comparisons["duplicateDeviceClients"].trend = "up"
    /\ output.value.comparisons["duplicateDeviceClients"].changePercent.text = "N/A"

C23_WitnessIdentical ==
    /\ output.fn = "formatIoTErrorStatisticsMessage"
    /\ ~IsNull(input.comparison)
    /\ GroupTotal(input.statistics, "duplicateAppClients") = MaxCount
    /\ \A g \in ErrorGroups :
          /\ GroupTotal(input.statistics, g) = GroupTotal(input.comparison, g)
          /\ output.value.comparisons[g].trend = "unchanged"

\* C24: a metric counter returns the sum of the signal over all the data
\* points of the response, and 0 when the response has none.
C24_SumOfAllDatapoints ==
    \A c \in MsgMetrics :
        (cpc[c] = "returned" /\ response[c].kind = "datapoints") =>
            ret[c] = SumValues(response[c].Datapoints)

\* C25: the three counters of a core run, polled in any interleaving, share
\* no poll state: each counter's attempts count its own polls only, a
\* counter times out only after its own 60 polls, and a counter that met no
\* failure returns the count its own fetch received, whatever happened to
\* the other two; a counter that failed, met a request error or timed out
\* returns 0.
C25_NoSharedPollState ==
    \A c \in Redshift :
        /\ cpc[c] = "poll" => attempts[c] = polls[c] - 1
        /\ attempts[c] <= polls[c]
        /\ caught[c] = QueryTimeout => (polls[c] = maxAttempts /\ attempts[c] = maxAttempts)
        /\ (cpc[c] = "returned" /\ caught[c] = NoError) =>
              (response[c].kind = "long" /\ ret[c] = response[c].longValue)
        /\ (cpc[c] = "returned" /\ caught[c] # NoError) => ret[c] = 0

C25_Witness ==
    /\ \A c \in Redshift : cpc[c] = "returned"
    /\ \E c \in Redshift : \E d \in Redshift \ {c} : \E e \in Redshift \ {c, d} :
          /\ caught[c] = QueryTimeout /\ polls[c] = maxAttempts
          /\ caught[d].kind = "QueryFailed" /\ polls[d] = 1
          /\ caught[e] = NoError /\ ret[e] = MaxCount /\ polls[e] = 2

MaxStatusPolls == 62

\* QueryExecution.Status.State
AthenaStates == {"QUEUED", "RUNNING", "SUCCEEDED", "FAILED", "CANCELLED"}

\* results.ResultSet.Rows: the title row, then error_count of each client.
AthenaRows == {<<"error_count">> \o q : q \in SeqsUpTo(0..MaxCount, MaxLen)}

\* throw new Error(`Athena 查询失败: ${...StateChangeReason}`)
AthenaFailed == [kind |-> "QueryFailed", reason |-> "StateChangeReason"]

\* const rows = results.ResultSet.Rows.slice(1); the loop over rows.
GatheredStatistics(Rows) ==
    [date |-> Today,
     total_errors |-> SumValues(Tail(Rows)),
     top_clients |-> Tail(Rows)]

\* do { ... } while (true): the loop is left only by the throw on FAILED and
\* the break on SUCCEEDED.
AthenaLoop(state) ==
    IF state = "FAILED" THEN "throw"
    ELSE IF state = "SUCCEEDED" THEN "break"
    ELSE "sleep"

InitAthena ==
    /\ Quiescent
    /\ report = "none"
    /\ store = EmptyStore
    /\ input = [fn |-> "gatherStatistics"]
    /\ output = NoOutput
    /\ inv = [pc |-> "start", state |-> "none", polls |-> 0]

\* await client.send(startCommand) settles: the first status request is
\* sent, or the rejection leaves gatherStatistics.
AthenaStartResponse ==
    /\ inv.pc = "start"
    /\ \/ /\ inv' = [inv EXCEPT !.pc = "status", !.polls = 1]
          /\ UNCHANGED output
       \/ /\ inv' = [inv EXCEPT !.pc = "rejected"]
          /\ output' = [fn |-> input.fn, error |-> RequestError("StartQueryExecution")]
    /\ UNCHANGED <<connVars, runVars, queries, handlerVars, input>>

\* await client.send(statusCommand) settles with a State, or is rejected.
AthenaStatusResponse ==
    /\ inv.pc = "status"
    /\ \/ \E state \in AthenaStates :
            LET next == AthenaLoop(state)
            IN  \/ /\ next = "throw"
                   /\ inv' = [inv EXCEPT !.pc = "rejected", !.state = state]
                   /\ output' = [fn |-> input.fn, error |-> AthenaFailed]
                \/ /\ next = "break"
                   /\ inv' = [inv EXCEPT !.pc = "results", !.state = state]
                   /\ UNCHANGED output
                \/ /\ next = "sleep"
                   /\ inv' = [inv EXCEPT !.pc = "sleep", !.state = state]
                   /\ UNCHANGED output
       \/ /\ inv' = [inv EXCEPT !.pc = "rejected"]
          /\ output' = [fn |-> input.fn, error |-> RequestError("GetQueryExecution")]
    /\ UNCHANGED <<connVars, runVars, queries, handlerVars, input>>

\* The one second timer fires: the next status request is sent.
AthenaTimer ==
    /\ inv.pc = "sleep"
    /\ inv.polls < MaxStatusPolls
    /\ inv' = [inv EXCEPT !.pc = "status", !.polls = @ + 1]
    /\ UNCHANGED <<connVars, runVars, queries, handlerVars, input, output>>

\* await client.send(resultsCommand) settles: the statistics are returned.
AthenaResultsResponse ==
    /\ inv.pc = "results"
    /\ \/ \E Rows \in AthenaRows :
            /\ inv' = [inv EXCEPT !.pc = "returned"]
            /\ output' = [fn |-> input.fn, value |-> GatheredStatistics(Rows)]
       \/ /\ inv' = [inv EXCEPT !.pc = "rejected"]
          /\ output' = [fn |-> input.fn, error |-> RequestError("GetQueryResults")]
    /\ UNCHANGED <<connVars, runVars, queries, handlerVars, input>>

NextAthena ==
    \/ AthenaStartResponse
    \/ AthenaStatusResponse
    \/ AthenaTimer
    \/ AthenaResultsResponse

SpecAthena == InitAthena /\ [][NextAthena]_vars

\* C27: gatherStatistics sends at most 60 status polls, and when the backend
\* keeps answering QUEUED, RUNNING or CANCELLED the call ends with a timeout
\* error at the 60th poll instead of waiting for another one.
C27_AtMost60StatusPolls ==
    /\ inv.polls <= maxAttempts
    /\ (/\ inv.polls = maxAttempts
        /\ inv.pc # "status"
        /\ inv.state \in {"QUEUED", "RUNNING", "CANCELLED"})
            => (inv.pc = "rejected" /\ output.error.kind = "QueryTimeout")

(***************************************************************************)
(* The Paginated Counter (the thing count of iotClient, ListThingsCommand).*)
(* Its loop is not among the sources; it is modelled as specified: pages   *)
(* are requested with the continuation token of the page before, a running *)
(* total is accumulated, a short delay separates two pages, and the loop   *)
(* ends when no token is returned or when the page count reaches a limit.  *)
(* The call is held in inv: the await it is at, the token of the next      *)
(* request, the running total and the requests sent.                       *)
(***************************************************************************)
\* The page-count limit of the loop; the specification leaves its value open.
MaxPages == 4

\* No continuation token.
NoToken == 0

\* A backend of n pages answers the request for page i with the count of the
\* page and the token of page i + 1, the last page without a token; an
\* endless backend answers every request with a token.
PageBackends ==
    {[kind |-> "pages", counts |-> q] : q \in SeqsUpTo(0..MaxCount, MaxLen + 1) \ {<<>>}}
    \cup {[kind |-> "endless", counts |-> <<v>>] : v \in 0..MaxCount}

\* The answer of the backend to the k-th request.
PageResponse(backend, k) ==
    IF backend.kind = "endless"
    THEN [count |-> backend.counts[1], nextToken |-> k + 1]
    ELSE [count |-> backend.counts[k],
          nextToken |-> IF k < Len(backend.counts) THEN k + 1 ELSE NoToken]

\* The running total after a page.
RunningTotalLastPage(total, count) == count
RunningTotal(total, count) == total + count

\* Whether another page is requested after a response.
MorePages(nextToken, requests) == nextToken # NoToken /\ requests < MaxPages

InitPages ==
    /\ Quiescent
    /\ report = "none"
    /\ store = EmptyStore
    /\ input \in {[fn |-> "paginatedCounter", backend |-> b] : b \in PageBackends}
    /\ output = NoOutput
    /\ inv = [pc |-> "idle", token |-> NoToken, total |-> 0, requests |-> 0]

\* The counter is called: the first page is requested, without a token.
PagesInvoke ==
    /\ inv.pc = "idle"
    /\ inv' = [inv EXCEPT !.pc = "page", !.requests = 1]
    /\ UNCHANGED <<connVars, runVars, queries, handlerVars, input, output>>

\* A page arrives: its count is added to the running total; the counter
\* returns the total when the page carries no token (or the limit is
\* reached), and waits before the next page otherwise.
PagesResponse ==
    /\ inv.pc = "page"
    /\ LET page == PageResponse(input.backend, inv.requests)
           total == RunningTotal(inv.total, page.count)
       IN  IF MorePages(page.nextToken, inv.requests)
           THEN /\ inv' = [inv EXCEPT !.pc = "delay", !.token = page.nextToken,
                                      !.total = total]
                /\ UNCHANGED output
           ELSE /\ inv' = [inv EXCEPT !.pc = "returned", !.token = page.nextToken,
                                      !.total = total]
                /\ output' = [fn |-> input.fn, value |-> total]
    /\ UNCHANGED <<connVars, runVars, queries, handlerVars, input>>

\* The delay between two pages is over: the next page is requested with the
\* token of the page before.
PagesDelay ==
    /\ inv.pc = "delay"
    /\ inv' = [inv EXCEPT !.pc = "page", !.requests = @ + 1]
    /\ UNCHANGED <<connVars, runVars, queries, handlerVars, input, output>>

NextPages ==
    \/ PagesInvoke
    \/ PagesResponse
    \/ PagesDelay

\* The event loop runs every continuation whose response or timer is due.
SpecPages == InitPages /\ [][NextPages]_vars /\ WF_vars(NextPages)

\* C28: the counter requests a page only after a page that carried a token;
\* on a backend of n pages within the page limit (n = 3 included) it returns the sum of the counts
\* of the n pages after exactly n requests; and it returns on every backend,
\* also on one that answers every request with a token, after no more
\* requests than the page limit.
C28_PagesSummedUntilNoToken ==
    /\ [](/\ inv.requests <= MaxPages
          /\ inv.pc = "delay" => inv.token # NoToken
          /\ inv.pc = "page" /\ inv.requests > 1 => inv.token = inv.requests
          /\ (/\ inv.pc = "returned"
              /\ input.backend.kind = "pages"
              /\ Len(input.backend.counts) <= MaxPages)
                => /\ output.value = SumValues(input.backend.counts)
                   /\ inv.requests = Len(input.backend.counts)
                   /\ inv.token = NoToken)
    /\ <>(inv.pc = "returned")

\* A backend of three pages with different counts has been read to its end.
C28_Witness ==
    /\ inv.pc = "returned"
    /\ input.backend.kind = "pages"
    /\ Len(input.backend.counts) = 3
    /\ input.backend.counts[1] # input.backend.counts[2]
    /\ input.backend.counts[3] > 0
    /\ inv.requests = 3

\* The counter returned although the last page carried a token.
C28_WitnessEndless ==
    /\ inv.pc = "returned"
    /\ input.backend.kind = "endless"
    /\ inv.token # NoToken
    /\ inv.requests = MaxPages

\* C29: in a run of the error report in which every contributor connector
\* and the put succeeded, the message handed to delivery is the rendered
\* report and shows, for each contributor group and for the overall total,
\* the event counts of the snapshot persisted in that run.
C29_ReportShowsPersistedCounts ==
    (/\ report = "error"
     /\ rpc = "done"
     /\ outcome.kind = "report"
     /\ \A g \in ErrorGroups : snapshot[g].error = "none"
     /\ store[KeyOf(Prefix(report), Today)] = Json(snapshot))
        => /\ sent # NoMessage
           /\ sent.msgtype = "markdown"
           /\ sent.totalErrors =
                  snapshot.duplicateAppClients.totalEvents
                  + snapshot.duplicateDeviceClients.totalEvents
                  + snapshot.authFailureAppClients.totalEvents
           /\ \A g \in ErrorGroups :
                  snapshot[g].totalEvents > 0 =>
                      /\ sent.sections[g].shown
                      /\ sent.sections[g].totalEvents = snapshot[g].totalEvents

(***************************************************************************)
(* The core report over several days.  The store starts empty and only the *)
(* runs write to it; days pass with or without a run, and a day may see    *)
(* several runs.  inv holds the day and the run in progress: the await it  *)
(* is at and the statisticMessage it built.                                *)
(***************************************************************************)
\* The last day followed.
MaxDays == 3

\* What a counter returns: 0 (also when it failed) or a count.
DayCounts == {0, MaxCount}

DayKeys == {KeyOf(Prefix("core"), d) : d \in 0..MaxDays}

\* The statisticMessage of a run on day: date is the day of the run.
DayStatistics(day, res) == [CoreStatistics(res) EXCEPT !.date = day]

InitDays ==
    /\ Quiescent
    /\ report = "core"
    /\ store = [k \in DayKeys |-> Absent]
    /\ input = [fn |-> "getAWSIotCoreStatistic"]
    /\ output = NoOutput
    /\ inv = [day |-> 1, pc |-> "idle", snapshot |-> NoSnapshot]

\* Midnight.
DaysMidnight ==
    /\ inv.day < MaxDays
    /\ inv' = [inv EXCEPT !.day = @ + 1]
    /\ UNCHANGED <<connVars, runVars, queries, handlerVars, input, output>>

\* A run: the three counters and the get of the previous day's snapshot have
\* settled, the statisticMessage is built and the put is sent. The get
\* returns the stored object, or the default when there is none or the
\* request failed.
DaysJoin ==
    /\ inv.pc = "idle"
    /\ \E account \in DayCounts, sdevice \in DayCounts, gateway \in DayCounts,
          getFailed \in BOOLEAN :
            LET obj == store[KeyOf(Prefix("core"), Yesterday(inv.day))]
                yesterday == IF getFailed THEN LoadDefault("core") ELSE Loaded("core", obj)
                res == <<[value |-> account], [value |-> sdevice], [value |-> gateway],
                         [value |-> yesterday]>>
            IN  inv' = [inv EXCEPT !.pc = "put", !.snapshot = DayStatistics(inv.day, res)]
    /\ UNCHANGED <<connVars, runVars, queries, handlerVars, input, output>>

\* The put is answered: the snapshot replaces the object under the key of its
\* date, or the request is rejected and the run fails.
DaysPut ==
    /\ inv.pc = "put"
    /\ \/ store' = [store EXCEPT ![SaveKey("core", inv.snapshot)] = Json(inv.snapshot)]
       \/ UNCHANGED store
    /\ inv' = [inv EXCEPT !.pc = "idle", !.snapshot = NoSnapshot]
    /\ UNCHANGED <<connVars, queries, handlerVars, input, output, report, rpc, results,
                   reordered, snapshot, cw, putLog, outcome>>

NextDays ==
    \/ DaysMidnight
    \/ DaysJoin
    \/ DaysPut

SpecDays == InitDays /\ [][NextDays]_vars

\* C30: after any sequence of runs of the core report from an empty store,
\* every stored snapshot has totalThingIncrement = accountThingIncrement +
\* deviceThingIncrement, and its yesterdayData has totalThingCount =
\* accountThingCount + deviceThingCount.
C30_IncrementsAddUp ==
    \A k \in DayKeys :
        store[k].kind = "json" =>
            LET s == store[k].body
            IN  /\ s.totalThingIncrement = s.accountThingIncrement + s.deviceThingIncrement
                /\ s.yesterdayData.totalThingCount =
                       s.yesterdayData.accountThingCount + s.yesterdayData.deviceThingCount

\* A snapshot computed against the stored snapshot of the day before, with
\* counts of both kinds on both days.
C30_Witness ==
    \E d \in 2..MaxDays :
        LET k == KeyOf(Prefix("core"), d)
        IN  /\ store[k].kind = "json"
            /\ store[k].body.yesterdayData.accountThingCount > 0
            /\ store[k].body.yesterdayData.deviceThingCount > 0
            /\ store[k].body.accountThingIncrement < 0
            /\ store[k].body.deviceThingIncrement > 0

\* A snapshot computed after a day without a snapshot, itself following a day
\* with one.
C30_WitnessSkippedDay ==
    /\ store[KeyOf(Prefix("core"), 1)].kind = "json"
    /\ store[KeyOf(Prefix("core"), 1)].body.totalThingCount > 0
    /\ store[KeyOf(Prefix("core"), 2)] = Absent
    /\ store[KeyOf(Prefix("core"), 3)].kind = "json"
    /\ store[KeyOf(Prefix("core"), 3)].body.totalThingIncrement > 0

(***************************************************************************)
(* The handler on a scheduled event: the three reports one after the       *)
(* other.  An aggregator is followed from its call to its return by the    *)
(* awaits of its own code (the fan-out, the put, the comparison); what its *)
(* connectors answered is drawn when Promise.all resumes.  output holds    *)
(* the log of the outbound steps of the run.                               *)
(***************************************************************************)
\* The report the handler goes on with after report t was delivered.
NextReport(t) == IF t = "core" THEN "message" ELSE "error"

\* catch (error) { console.error(...); throw error; } of sendToDingTalk.
SendCatchSwallow(e) == "resolved"
SendCatch(e) == "rejected"

\* The arrays Promise.all resolves with in a run of report type t.
ScheduleResults(t) ==
    IF t = "core"
    THEN {<<Settled(t, "account", a), Settled(t, "device", s), Settled(t, "gateway", 0),
            Settled(t, "previous", y)>> :
              a \in {0, MaxCount}, s \in {0, MaxCount},
              y \in {LoadDefault("core"), PreviousCore, Null}}
    ELSE IF t = "message"
    THEN {[i \in 1..Len(MsgMetricSeq) |-> Settled(t, MsgMetricSeq[i], v)] : v \in {0, MaxCount}}
    ELSE {<<Settled(t, "duplicateApp", Report("duplicateApp", n, n, <<>>, "none")),
            Settled(t, "duplicateDevice", Report("duplicateDevice", 0, 0, <<>>, e)),
            Settled(t, "authFailureApp", Report("authFailureApp", 0, 0, <<>>, "none"))>> :
              n \in {0, MaxCount}, e \in {"none", "RequestError"}}

\* An outbound step of the run is logged.
Logged(kind, t) == [output EXCEPT !.log = Append(@, <<kind, t>>)]

\* The entry point of report type t is called and runs to its first await:
\* its connectors are invoked.
ScheduleBegin(t) ==
    /\ report' = t
    /\ rpc' = "fanout"
    /\ queries' = [c \in Calls |-> IF c \in Range(FanOut(t)) THEN queries[c] + 1
                                   ELSE queries[c]]
    /\ snapshot' = NoSnapshot
    /\ outcome' = NoOutcome

\* An inbound event, by what the handler reads of it.  Records: undefined,
\* [], [null], or one record with EventSource aws:sns or another source.
\* Sns: the Type, whether SubscribeURL is there, whether Message is the JSON
\* of an alarm (Type "undefined": the record has no Sns).  resources:
\* undefined, [], a rule ARN, another string, or an element that is no string.
NullEvent ==
    [null |-> TRUE, Records |-> "undefined", Type |-> "undefined", SubscribeURL |-> FALSE,
     Message |-> "none", source |-> "undefined", detailType |-> "undefined",
     resources |-> "undefined"]

Events ==
    {[null |-> FALSE, Records |-> r, Type |-> ty, SubscribeURL |-> u, Message |-> m,
      source |-> s, detailType |-> dt, resources |-> rs] :
        r \in {"undefined", "empty", "null", "aws:sns", "aws:s3"},
        ty \in {"undefined", "SubscriptionConfirmation", "Notification",
                "UnsubscribeConfirmation"},
        u \in BOOLEAN, m \in {"alarm", "text"},
        s \in {"aws.events", "aws.s3"}, dt \in {"Scheduled Event", "Object Created"},
        rs \in {"undefined", "empty", "rule", "queue", "number"}}
    \cup {NullEvent}

\* The events the model follows: the fields of Sns vary only in SNS events.
InboundEvents ==
    {e \in Events :
        e.Records # "aws:sns" => (e.Type = "undefined" /\ ~e.SubscribeURL /\ e.Message = "text")}

\* event.Records && event.Records.length > 0 &&
\*     event.Records[0].EventSource === 'aws:sns'
isEventFromSNS(event) ==
    IF event.null \/ event.Records = "null" THEN "TypeError"
    ELSE IF event.Records = "aws:sns" THEN "true" ELSE "false"

\* (source === 'aws.events' && (detail-type is one of the two scheduled
\* types)) || (source === 'aws.events' && resources && resources[0] &&
\* resources[0].includes('rule/'))
isEventFromEventBridgeScheduler(event) ==
    IF event.source # "aws.events" THEN "false"
    ELSE IF event.detailType = "Scheduled Event" THEN "true"
    ELSE IF event.resources \in {"undefined", "empty"} THEN "false"
    ELSE IF event.resources = "number" THEN "TypeError"
    ELSE IF event.resources = "rule" THEN "true" ELSE "false"

\* The branch of the handler an event takes: if (isEventFromSNS(event)) ...
\* else if (isEventFromEventBridgeScheduler(event)) ..., "throw" when a test
\* raises a TypeError and "none" when neither holds.
Branch(event) ==
    IF isEventFromSNS(event) = "TypeError" THEN "throw"
    ELSE IF isEventFromSNS(event) = "true" THEN "sns"
    ELSE IF isEventFromEventBridgeScheduler(event) = "TypeError" THEN "throw"
    ELSE IF isEventFromEventBridgeScheduler(event) = "true" THEN "scheduled"
    ELSE "none"

\* A scheduled event of EventBridge.
ScheduledEvent ==
    [null |-> FALSE, Records |-> "undefined", Type |-> "undefined", SubscribeURL |-> FALSE,
     Message |-> "text", source |-> "aws.events", detailType |-> "Scheduled Event",
     resources |-> "rule"]

InitSchedule ==
    /\ Quiescent
    /\ report = "core"
    /\ store = EmptyStore
    /\ input = [fn |-> "handler", event |-> ScheduledEvent]
    /\ output = [fn |-> "handler", log |-> <<>>]
    /\ inv = <<>>

\* The handler receives the scheduled event and calls getAWSIotCoreStatistic.
ScheduleInvoke ==
    /\ hpc = "none"
    /\ rpc = "idle"
    /\ Branch(input.event) = "scheduled"
    /\ ScheduleBegin("core")
    /\ hpc' = "call"
    /\ output' = Logged("invoke", "core")
    /\ UNCHANGED <<connVars, results, reordered, store, cw, putLog, statusCode, sent,
                   input, inv>>

\* await Promise.all resumes in the aggregator: the statistics object is
\* built and the put is sent, or (core report, previous snapshot null) the
\* catch block returns and the handler renders what it returned.
ScheduleJoin ==
    /\ rpc = "fanout"
    /\ \E res \in ScheduleResults(report) :
          IF report = "core" /\ IsNull(res[4].value)
          THEN /\ Returns(RunError)
               /\ output' = IF hpc' = "send" THEN Logged("send", report) ELSE output
               /\ UNCHANGED <<snapshot, putLog>>
          ELSE /\ snapshot' = Statistics(report, res)
               /\ putLog' = Append(putLog, [key |-> KeyOf(Prefix(report), Today),
                                            inflight |-> {}])
               /\ output' = Logged("put", report)
               /\ rpc' = "put"
               /\ UNCHANGED <<outcome, handlerVars>>
    /\ UNCHANGED <<connVars, queries, report, results, reordered, store, cw, input, inv>>

\* The put is answered.  Stored: the core and message aggregators return the
\* statistics, the error aggregator goes on to its comparison.  Rejected: the
\* catch block of the aggregator returns.  The handler renders what was
\* returned and hands the message to sendToDingTalk, or the renderer throws.
SchedulePut ==
    /\ rpc = "put"
    /\ \/ /\ store' = Stored(report, snapshot)
          /\ IF report = "error"
             THEN /\ rpc' = "compare"
                  /\ UNCHANGED <<outcome, handlerVars, output>>
             ELSE /\ Returns(RunResult(report, snapshot, Null))
                  /\ output' = IF hpc' = "send" THEN Logged("send", report) ELSE output
       \/ /\ Returns(RunError)
          /\ output' = IF hpc' = "send" THEN Logged("send", report) ELSE output
          /\ UNCHANGED store
    /\ UNCHANGED <<connVars, queries, report, results, reordered, snapshot, cw, putLog,
                   input, inv>>

\* The comparison of the error report: the stored snapshot of the previous
\* day, or the three contributors queried again for that day.
ScheduleCompare ==
    /\ rpc = "compare"
    /\ \/ /\ Returns(RunResult(report, snapshot, PreviousError))
          /\ UNCHANGED queries
       \/ /\ \E res \in ScheduleResults(report) :
                Returns(RunResult(report, snapshot, ErrorStatistics(Yesterday(Today), res)))
          /\ queries' = [c \in Calls |-> IF c \in Contributor THEN queries[c] + 1
                                         ELSE queries[c]]
    /\ output' = IF hpc' = "send" THEN Logged("send", report) ELSE output
    /\ UNCHANGED <<connVars, report, results, reordered, snapshot, store, cw, putLog,
                   input, inv>>

\* The post of sendToDingTalk is answered and await sendToDingTalk(message)
\* settles.  Resolved: the handler calls the next aggregator, or returns
\* statusCode 200 after the error report.  Rejected: the catch of
\* sendToDingTalk rethrows and the handler's catch returns statusCode 500.
ScheduleSendResponse ==
    /\ hpc = "send"
    /\ \E answer \in {"resolved", "rejected"} :
          LET settled == IF answer = "rejected" THEN SendCatch("error") ELSE "resolved"
              log == IF answer = "resolved"
                     THEN Append(output.log, <<"delivered", report>>)
                     ELSE output.log
          IN  IF settled = "rejected"
              THEN /\ hpc' = "returned"
                   /\ statusCode' = 500
                   /\ UNCHANGED <<report, rpc, queries, snapshot, outcome, output>>
              ELSE IF report = "error"
              THEN /\ hpc' = "returned"
                   /\ statusCode' = 200
                   /\ output' = [output EXCEPT !.log = log]
                   /\ UNCHANGED <<report, rpc, queries, snapshot, outcome>>
              ELSE /\ ScheduleBegin(NextReport(report))
                   /\ hpc' = "call"
                   /\ output' = [output EXCEPT !.log =
                                    Append(log, <<"invoke", NextReport(report)>>)]
                   /\ UNCHANGED statusCode
    /\ UNCHANGED <<connVars, results, reordered, store, cw, putLog, sent, input, inv>>

NextSchedule ==
    \/ ScheduleInvoke
    \/ ScheduleJoin
    \/ SchedulePut
    \/ ScheduleCompare
    \/ ScheduleSendResponse

SpecSchedule == InitSchedule /\ [][NextSchedule]_vars

\* The place of a report in the run, and of a step within its report.
ReportRank(t) == IF t = "core" THEN 1 ELSE IF t = "message" THEN 2 ELSE 3
StepRank(kind) ==
    IF kind = "invoke" THEN 1 ELSE IF kind = "put" THEN 2 ELSE IF kind = "send" THEN 3 ELSE 4
EventRank(e) == 4 * (ReportRank(e[2]) - 1) + StepRank(e[1])

\* The reports after the one the handler is at.
LaterReports == {t \in {"core", "message", "error"} : ReportRank(t) > ReportRank(report)}

\* C31: in a scheduled run the outbound steps happen in the order core,
\* message, error and, within a report, connectors invoked, put, message
\* handed to delivery, delivered; the connectors of a report are invoked only
\* after the report before it was delivered; when the aggregator of the core
\* or message report failed, or its renderer threw, or its delivery was
\* rejected, the handler has returned statusCode 500 and no connector of a
\* later report was invoked, no snapshot of a later report stored and no later
\* report delivered; statusCode 200 is returned only after the error report
\* was delivered.
C31_ReportsInOrder ==
    LET log == output.log
    IN  /\ \A i \in 1..Len(log) : \A j \in 1..Len(log) :
              i < j => EventRank(log[i]) < EventRank(log[j])
        /\ \A i \in 1..Len(log) :
              (log[i][1] = "invoke" /\ log[i][2] # "core") =>
                  /\ i > 1
                  /\ log[i - 1][1] = "delivered"
                  /\ NextReport(log[i - 1][2]) = log[i][2]
        /\ \A t \in LaterReports :
              /\ \A c \in Range(FanOut(t)) : queries[c] = 0
              /\ store[KeyOf(Prefix(t), Today)] = Absent
              /\ \A i \in 1..Len(log) : log[i][2] # t
        /\ (report \in {"core", "message"} /\ rpc = "done" /\ outcome.kind = "error")
              => (hpc = "returned" /\ statusCode = 500)
        /\ (report \in {"core", "message"} /\ hpc = "returned") => statusCode = 500
        /\ statusCode = 200 =>
              (hpc = "returned" /\ report = "error" /\ log[Len(log)] = <<"delivered", "error">>)
        /\ statusCode \in {0, 200, 500}
        /\ hpc = "returned" <=> statusCode # 0

\* The three reports were delivered and the handler returned statusCode 200.
C31_Witness ==
    /\ hpc = "returned"
    /\ statusCode = 200
    /\ Len(output.log) = 12
    /\ \A t \in {"core", "message", "error"} : store[KeyOf(Prefix(t), Today)] # Absent

\* The core report was delivered, the put of the message report was rejected
\* and the handler returned statusCode 500 before the error report.
C31_WitnessAborted ==
    /\ report = "message"
    /\ hpc = "returned"
    /\ statusCode = 500
    /\ outcome.kind = "error"
    /\ output.log = <<<<"invoke", "core">>, <<"put", "core">>, <<"send", "core">>,
                      <<"delivered", "core">>, <<"invoke", "message">>, <<"put", "message">>>>

(***************************************************************************)
(* The keys of the snapshot store as the code builds them: strings made    *)
(* from Date values.  A Date is its time value, here in hours since the    *)
(* first modelled year began (UTC); the host's time zone is a fixed offset *)
(* in hours.                                                               *)
(***************************************************************************)
\* The calendar years followed: a leap year between two common years.
FirstYear == 2023
LastYear == 2025
Years == FirstYear..LastYear

\* The Gregorian calendar, as Date computes with it.
IsLeapYear(y) == (y % 4 = 0 /\ y % 100 # 0) \/ y % 400 = 0
DaysInMonth(y, m) ==
    IF m = 2 THEN (IF IsLeapYear(y) THEN 29 ELSE 28)
    ELSE IF m \in {4, 6, 9, 11} THEN 30 ELSE 31
DaysInYear(y) == IF IsLeapYear(y) THEN 366 ELSE 365

RECURSIVE DaysBeforeYear(_)
DaysBeforeYear(y) == IF y <= FirstYear THEN 0 ELSE DaysBeforeYear(y - 1) + DaysInYear(y - 1)
RECURSIVE DaysBeforeMonth(_, _)
DaysBeforeMonth(y, m) == IF m <= 1 THEN 0 ELSE DaysBeforeMonth(y, m - 1) + DaysInMonth(y, m - 1)

\* MakeDay(year, month, date): the day number of the date-th day counted from
\* the first of the month; date may be 0 or negative and then falls into the
\* month before.
MakeDayClamped(y, m, date) == DaysBeforeYear(y) + DaysBeforeMonth(y, m) + (IF date < 1 THEN 1 ELSE date) - 1
MakeDay(y, m, date) == DaysBeforeYear(y) + DaysBeforeMonth(y, m) + date - 1

\* YearFromTime, MonthFromTime, DateFromTime of a day number.
DateOfDay(n) ==
    LET y == CHOOSE y \in Years : DaysBeforeYear(y) <= n /\ n < DaysBeforeYear(y) + DaysInYear(y)
        r == n - DaysBeforeYear(y)
        m == CHOOSE m \in 1..12 :
                DaysBeforeMonth(y, m) <= r /\ r < DaysBeforeMonth(y, m) + DaysInMonth(y, m)
    IN  [year |-> y, month |-> m, date |-> r - DaysBeforeMonth(y, m) + 1]

\* Floor division and the remainder that goes with it.
Day(time) == time \div 24
HourOfDay(time) == time % 24

\* Decimal digits, and a number padded with zeros to width w.
Digit(n) == SubSeq("0123456789", n + 1, n + 1)
RECURSIVE Padded(_, _)
Padded(n, w) == IF w = 0 THEN "" ELSE Padded(n \div 10, w - 1) \o Digit(n % 10)

\* date.toISOString().split('T')[0]: YYYY-MM-DD of the time value in UTC.
ToISODate(time) ==
    LET d == DateOfDay(Day(time))
    IN  Padded(d.year, 4) \o "-" \o Padded(d.month, 2) \o "-" \o Padded(d.date, 2)

\* s.split('-')
RECURSIVE SplitFrom(_, _, _)
SplitFrom(s, i, start) ==
    IF i > Len(s) THEN <<SubSeq(s, start, Len(s))>>
    ELSE IF SubSeq(s, i, i) = "-"
    THEN <<SubSeq(s, start, i - 1)>> \o SplitFrom(s, i + 1, i + 1)
    ELSE SplitFrom(s, i + 1, start)
Split(s) == SplitFrom(s, 1, 1)

\* The number a string of digits denotes.
RECURSIVE ParseNat(_)
ParseNat(s) ==
    IF s = "" THEN 0
    ELSE 10 * ParseNat(SubSeq(s, 1, Len(s) - 1))
            + (CHOOSE n \in 0..9 : Digit(n) = SubSeq(s, Len(s), Len(s)))

\* new Date('YYYY-MM-DD'): midnight UTC of that date.
DateParse(s) ==
    LET parts == Split(s)
    IN  24 * MakeDay(ParseNat(parts[1]), ParseNat(parts[2]), ParseNat(parts[3]))

\* d.setDate(d.getDate() - 1) on a host whose local time is UTC + tz: the
\* day before in local time, at the same local time of day.
SetDateToDayBefore(time, tz) ==
    LET local == time + tz
        d == DateOfDay(Day(local))
    IN  24 * MakeDay(d.year, d.month, d.date - 1) + HourOfDay(local) - tz

\* `${year}/${month}/<prefix>-${date}.json` with year = date.split('-')[0]
\* and month = date.split('-')[1].
S3Key(prefix, date) ==
    Split(date)[1] \o "/" \o Split(date)[2] \o "/" \o prefix \o "-" \o date \o ".json"

\* The key a run of report type t at time now writes its snapshot to:
\* saveTodayStatisticsToS3 takes the date from new Date(), the other save
\* functions from data.date, which is targetDate.
WrittenKey(t, now) == S3Key(Prefix(t), ToISODate(now))

\* The key a run of report type t at time now reads the previous day from:
\* getYesterdayStatisticsFromS3 starts from new Date(), the comparison of
\* the error report (and the previous days of the message report) from
\* new Date(targetDate).
ReadKey(t, now, tz) ==
    IF t = "core"
    THEN S3Key(Prefix(t), ToISODate(SetDateToDayBefore(now, tz)))
    ELSE S3Key(Prefix(t), ToISODate(SetDateToDayBefore(DateParse(ToISODate(now)), tz)))

\* The hosts' offsets from UTC and the times of day a run starts at.
TimeZones == {0 - 5, 0, 8}
RunHours == {0, 23}
\* The days D followed: D - 1 and D + 2 lie in the calendar.
RunDays == 1..(DaysBeforeYear(LastYear) + DaysInYear(LastYear) - 3)

KeyInputs ==
    {[fn |-> "keys", t |-> t, day |-> n, hour |-> h, nextHour |-> g, tz |-> z] :
        t \in {"core", "message", "error"}, n \in RunDays, h \in RunHours, g \in RunHours,
        z \in TimeZones}

InitKeys ==
    /\ Quiescent
    /\ report = "none"
    /\ store = EmptyStore
    /\ input \in KeyInputs
    /\ output = [fn |-> "keys", written |-> "", read |-> ""]
    /\ inv = <<>>

\* The run on day D builds the key of its put.
KeysSave ==
    /\ output.written = ""
    /\ output' = [output EXCEPT
                    !.written = WrittenKey(input.t, 24 * input.day + input.hour)]
    /\ UNCHANGED <<connVars, runVars, queries, handlerVars, input, inv>>

\* The run on day D + 1 builds the key of its get of the previous day.
KeysLoad ==
    /\ output.written # ""
    /\ output.read = ""
    /\ output' = [output EXCEPT
                    !.read = ReadKey(input.t, 24 * (input.day + 1) + input.nextHour, input.tz)]
    /\ UNCHANGED <<connVars, runVars, queries, handlerVars, input, inv>>

NextKeys ==
    \/ KeysSave
    \/ KeysLoad

SpecKeys == InitKeys /\ [][NextKeys]_vars

C32_WitnessYearEnd ==
    /\ output.read = "2024/12/error-statistic-2024-12-31.json"
    /\ DateOfDay(input.day + 1) = [year |-> 2025, month |-> 1, date |-> 1]
    /\ input.tz = 0 - 5

(***************************************************************************)
(* The handler on any inbound event.  output holds the log of the outbound *)
(* requests and the answer to the request of the SNS branch.               *)
(***************************************************************************)
\* parseAlarmMessage(snsMessage): the markdown message of the alarm, or, when
\* Message is not the JSON of an alarm, the string its catch block returns.
parseAlarmMessage(event) ==
    IF event.Message = "alarm"
    THEN [throws |-> FALSE, msgtype |-> "markdown", title |-> "alarm"]
    ELSE [throws |-> FALSE, msgtype |-> "string", title |-> "alarm"]

\* catch (error) { console.error(...); throw error; } of confirmSubscription.
ConfirmCatchSwallow(e) == "resolved"
ConfirmCatch(e) == "rejected"

InitEvent ==
    /\ Quiescent
    /\ report = "core"
    /\ store = EmptyStore
    /\ input \in {[fn |-> "handler", event |-> e] : e \in InboundEvents}
    /\ output = [fn |-> "handler", log |-> <<>>, answer |-> "none"]
    /\ inv = <<>>

\* The handler receives an event that does not take the scheduled branch and
\* runs to its first await or to its return.
EventReceive ==
    /\ hpc = "none"
    /\ Branch(input.event) # "scheduled"
    /\ LET event == input.event
           returns(code) == /\ hpc' = "returned"
                            /\ statusCode' = code
                            /\ UNCHANGED <<sent, output>>
       IN  IF Branch(event) = "throw" THEN returns(500)
           ELSE IF Branch(event) = "none" THEN returns(200)
           ELSE IF event.Type = "undefined" THEN returns(500)
           ELSE IF event.Type = "SubscriptionConfirmation"
           THEN IF ~event.SubscribeURL
                THEN returns(500)
                ELSE /\ hpc' = "confirm"
                     /\ output' = Logged("confirm", "sns")
                     /\ UNCHANGED <<statusCode, sent>>
           ELSE IF event.Type = "Notification"
           THEN /\ hpc' = "notify"
                /\ sent' = parseAlarmMessage(event)
                /\ output' = Logged("deliver", "sns")
                /\ UNCHANGED statusCode
           ELSE returns(200)
    /\ UNCHANGED <<connVars, runVars, queries, input, inv>>

\* The get of confirmSubscription is answered: the handler returns
\* statusCode 200, or the rejection is rethrown and its catch returns 500.
EventConfirmResponse ==
    /\ hpc = "confirm"
    /\ \E answer \in {"resolved", "rejected"} :
          LET settled == IF answer = "rejected" THEN ConfirmCatch("error") ELSE "resolved"
          IN  /\ output' = [output EXCEPT !.answer = answer]
              /\ hpc' = "returned"
              /\ statusCode' = IF settled = "rejected" THEN 500 ELSE 200
    /\ UNCHANGED <<connVars, runVars, queries, sent, input, inv>>

\* The post of sendToDingTalk in the Notification branch is answered.
EventNotifyResponse ==
    /\ hpc = "notify"
    /\ \E answer \in {"resolved", "rejected"} :
          LET settled == IF answer = "rejected" THEN SendCatch("error") ELSE "resolved"
          IN  /\ output' = [output EXCEPT !.answer = answer]
              /\ hpc' = "returned"
              /\ statusCode' = IF settled = "rejected" THEN 500 ELSE 200
    /\ UNCHANGED <<connVars, runVars, queries, sent, input, inv>>

NextEvent ==
    \/ EventReceive
    \/ EventConfirmResponse
    \/ EventNotifyResponse
    \/ ScheduleInvoke
    \/ ScheduleJoin
    \/ SchedulePut
    \/ ScheduleCompare
    \/ ScheduleSendResponse

SpecEvent == InitEvent /\ [][NextEvent]_vars

\* The requests of a kind the handler has sent.
Requests(kind) == {i \in 1..Len(output.log) : output.log[i][1] = kind}

\* The handler has taken up the event.
Received == hpc # "none"

\* What is common to the claim as stated and as amended: no event causes both
\* a confirmation and a delivery; a Notification causes exactly one delivery
\* and no confirmation; another SNS type and an event of neither kind cause no
\* outbound call and statusCode 200; the scheduled branch sends no
\* confirmation; the handler returns 200 or 500, 500 exactly when the request
\* of the SNS branch was rejected or a step before it threw.
OneBranchOnly ==
    LET event == input.event
        sns == Branch(event) = "sns"
    IN  /\ Requests("confirm") = {} \/ Requests("deliver") = {}
        /\ (Received /\ sns /\ event.Type = "Notification") =>
              /\ Cardinality(Requests("deliver")) = 1
              /\ Requests("confirm") = {}
              /\ sent = parseAlarmMessage(event)
        /\ (Received /\ ((sns /\ event.Type = "UnsubscribeConfirmation")
                         \/ Branch(event) = "none")) =>
              /\ output.log = <<>>
              /\ hpc = "returned" /\ statusCode = 200
        /\ (Received /\ (Branch(event) = "throw" \/ (sns /\ event.Type = "undefined"))) =>
              /\ output.log = <<>>
              /\ hpc = "returned" /\ statusCode = 500
        /\ Branch(event) = "scheduled" =>
              (Requests("confirm") = {} /\ Requests("deliver") = {})
        /\ Branch(event) # "scheduled" =>
              (\A c \in Calls : queries[c] = 0) /\ putLog = <<>> /\ Len(output.log) <= 1
        /\ hpc = "returned" <=> statusCode \in {200, 500}
        /\ statusCode \in {0, 200, 500}
        /\ (hpc = "returned" /\ output.log # <<>> /\ Branch(event) # "scheduled") =>
              (statusCode = 500 <=> output.answer = "rejected")

C33_WitnessNotification ==
    /\ input.event.Type = "Notification"
    /\ input.event.Message = "text"
    /\ isEventFromEventBridgeScheduler(input.event) = "true"
    /\ output.log = <<<<"deliver", "sns">>>>
    /\ statusCode = 200

====
